---- MODULE Spec2Model ----
(***************************************************************************)
(* NetForeman: module loading (Configurator.load_modules), action          *)
(* resolution, the dispatcher's run phase, action lists and the check      *)
(* loops of the FIB and Process modules.                                   *)
(*                                                                         *)
(* Strings that the code splits (action names, module names) are           *)
(* sequences of tokens; the token "." is the dot character and every other *)
(* token is a dot-free run of characters.                                  *)
(***************************************************************************)
EXTENDS Integers, Sequences, FiniteSets, TLC

VARIABLES
    pc,            \* control location of main() / the operation under study
    conf,          \* Configurator.conf: the parsed configuration tree
    idx,           \* load_modules: position of the for loop in modules_to_load
    errors,        \* load_modules: the local flag `errors`
    configurator,  \* attributes set on the Configurator by load_modules
    log,           \* records emitted through the loggers, in order
    parse,         \* ProcessSettings.from_pyhocon: the checks parsed so far
    resolves,      \* resolve_action calls made for the check parsed last
    load_ret,      \* what load_modules returned / raised
    main_ret,      \* what main() returned / raised
    call,          \* a method studied on its own: its name and arguments
    ret,           \* what that method returned / raised, and what it did
    tcam,          \* TCAM.dests_by_len of the TCAM studied on its own
    latest         \* history: per dest, the route added last and not removed since

vars == <<pc, conf, idx, errors, configurator, log, parse, resolves, load_ret, main_ret, call, ret,
          tcam, latest>>

\* the objects studied on their own, which start-up never touches
objects == <<tcam, latest>>

\* ---------------------------------------------------------------- bounds
MaxModules == 3     \* longest `modules` list explored
MaxConfChecks  == 1 \* most process_checks entries in a configuration section
MaxConfActions == 1 \* longest on_error list in a configuration section

\* ------------------------------------------------------- generic helpers
BoundedSeq(S, n) == UNION { [1..m -> S] : m \in 0..n }

Ret(v)   == [kind |-> "return", value |-> v]
Raise(e) == [kind |-> "raise", exc |-> e, msg |-> ""]
ConfigError(m) == [kind |-> "raise", exc |-> "ConfigError", msg |-> m]
None     == [kind |-> "none"]

EmptyMap == [x \in {} |-> None]

\* ------------------------------------------------------------ the names
DOT     == "."
EMAIL   == <<"email">>
PROCESS == <<"process">>
BOGUS   == <<"bogus">>      \* no netforeman.modules.bogus exists

ModNames == {EMAIL, PROCESS, BOGUS}

\* names written in `action = ...` entries of the configuration
ActionNames ==
    { <<"email", DOT, "sendmail">>,
      <<"process", DOT, "execute">>,
      <<"sendmail">>,                          \* relative, no dot
      <<"email", DOT>>,                        \* trailing dot
      <<DOT>>,                                 \* both parts empty
      <<"email", DOT, "nosuch">>,              \* module without that action
      <<"email", DOT, "sendmail", DOT, "x">> } \* more than one dot


\* ------------------------------------------------- configuration inputs
\* An entry of an on_error list.  `valid` says whether the keys other than
\* `action` are acceptable to the settings class of the action.
ValidActionNames == { <<"email", DOT, "sendmail">>, <<"process", DOT, "execute">> }

ActionConfs ==
    [action : ActionNames, valid : {TRUE}]
    \cup [action : ValidActionNames, valid : {FALSE}]

PasswdDB == { "bird", "nobody" }      \* login names known to the host

\* basename / cmdline / user of a process_check entry; a cmdline given as a
\* string is a sequence of tokens, " " being white space
CheckShapes ==
    { [basename |-> None, cmdline |-> None, user |-> None],
      [basename |-> [kind |-> "str", text |-> "bird"], cmdline |-> None, user |-> None],
      [basename |-> [kind |-> "str", text |-> "bird"],
       cmdline  |-> [kind |-> "str", text |-> <<"bird", " ", "-f">>],
       user     |-> [kind |-> "str", text |-> "bird"]],
      [basename |-> [kind |-> "str", text |-> "bird"], cmdline |-> None,
       user     |-> [kind |-> "str", text |-> "ghost"]] }

CheckConfs ==
    { [basename |-> sh.basename, cmdline |-> sh.cmdline, user |-> sh.user,
       on_error |-> oe] : sh \in CheckShapes, oe \in BoundedSeq(ActionConfs, MaxConfActions) }

EmailRequired == <<"from_address", "to_address", "server">>

EmailSections ==
    { [kind |-> "email", missing |-> {}, port |-> "25"],
      [kind |-> "email", missing |-> {"to_address", "server"}, port |-> "25"],
      [kind |-> "email", missing |-> {}, port |-> "smtp"] }

Absent == [kind |-> "absent"]

\* what the configuration file may hold under the key `name`
SectionChoices(name) ==
    {Absent} \cup
    (IF name = EMAIL THEN EmailSections
     ELSE IF name = PROCESS THEN {[kind |-> "process", process_checks |-> <<>>]}
     ELSE {[kind |-> "other"]})

\* ----------------------------------------------------- str.rpartition('.')
DotPositions(s) == { i \in 1..Len(s) : s[i] = DOT }

SetMax(S) == CHOOSE x \in S : \A y \in S : y <= x
SetMin(S) == CHOOSE x \in S : \A y \in S : x <= y

PartitionAt(s, i) == << SubSeq(s, 1, i - 1), <<DOT>>, SubSeq(s, i + 1, Len(s)) >>

\* str.partition('.'): the split at the leftmost dot
RPartition_leftmost(s) ==
    IF DotPositions(s) = {} THEN << s, <<>>, <<>> >>
    ELSE PartitionAt(s, SetMin(DotPositions(s)))

RPartition(s) ==
    IF DotPositions(s) = {} THEN << <<>>, <<>>, s >>
    ELSE PartitionAt(s, SetMax(DotPositions(s)))

\* ------------------------------------------------------ the module classes
\* importlib.import_module("netforeman.modules.<name>").API
GetModuleApi(name) ==
    IF name = EMAIL THEN Ret("EmailModuleAPI")
    ELSE IF name = PROCESS THEN Ret("ProcessModuleAPI")
    ELSE Raise("ImportError")

\* the class attribute `actions` of an API class
ApiActions(api_class) ==
    IF api_class = "EmailModuleAPI" THEN (<<"sendmail">> :> "ActionSendEmail")
    ELSE IF api_class = "ProcessModuleAPI" THEN (<<"execute">> :> "ActionExecute")
    ELSE EmptyMap

\* ------------------------------------------- Configurator.resolve_action
ResolveAction(cfgtor, action_name) ==
    LET parts           == RPartition(action_name)
        module_name     == parts[1]
        action_basename == parts[3]
        classes         == cfgtor.module_api_classes_by_name
        apis            == cfgtor.module_apis_by_name
    IN  IF module_name = <<>> THEN ConfigError("missing module name")
        ELSE IF action_basename = <<>> THEN ConfigError("missing action name")
        ELSE IF module_name \notin DOMAIN classes THEN ConfigError("no such module")
        ELSE IF action_basename \notin DOMAIN ApiActions(classes[module_name])
             THEN ConfigError("action not defined")
        ELSE Ret([action_class |-> ApiActions(classes[module_name])[action_basename],
                  api |-> IF module_name \in DOMAIN apis THEN apis[module_name] ELSE None])


\* ---------------------------------------------- settings of the actions
\* ActionSendEmailSettings.from_pyhocon / ActionExecuteSettings.from_pyhocon
ActionSettingsFromPyhocon(action_class, aconf) ==
    IF action_class = "ActionSendEmail"
    THEN IF aconf.action # <<"email", DOT, "sendmail">>
         THEN ConfigError("should be email.sendmail")
         ELSE IF ~aconf.valid THEN ConfigError("invalid value for text")
         ELSE Ret([class |-> "ActionSendEmailSettings", action_name |-> aconf.action])
    ELSE IF ~aconf.valid THEN ConfigError("missing required argument")
         ELSE Ret([class |-> "ActionExecuteSettings", action_name |-> aconf.action])

\* Configurator.configure_action
ConfigureAction(cfgtor, aconf) ==
    LET r == ResolveAction(cfgtor, aconf.action)
    IN  IF r.kind = "raise" THEN r
        ELSE ActionSettingsFromPyhocon(r.value.action_class, aconf)

ResolveRecord(cfgtor, aconf) ==
    [action_name |-> aconf.action,
     known       |-> DOMAIN cfgtor.module_api_classes_by_name,
     result      |-> ResolveAction(cfgtor, aconf.action)]

\* ActionListSettings.from_pyhocon: configure the entries in order, the first
\* error ends it.  `trace` lists the resolve_action calls that were made.
RECURSIVE ConfigureActions(_, _, _, _, _)
ConfigureActions(cfgtor, confs, i, acc, trace) ==
    IF i > Len(confs)
    THEN [res |-> Ret([class |-> "ActionListSettings", action_settings_list |-> acc]),
          trace |-> trace]
    ELSE LET s  == ConfigureAction(cfgtor, confs[i])
             tr == Append(trace, ResolveRecord(cfgtor, confs[i]))
         IN  IF s.kind = "raise" THEN [res |-> s, trace |-> tr]
             ELSE ConfigureActions(cfgtor, confs, i + 1, Append(acc, s.value), tr)

ActionListSettingsFromPyhocon(cfgtor, confs) ==
    ConfigureActions(cfgtor, confs, 1, <<>>, <<>>)

\* ------------------------------------------- settings of the Process module
IsSpace(t) == t = " "

\* _parse_cmdline: a string is split at white space
ParseCmdline(cmdline_raw) ==
    IF cmdline_raw = None THEN None
    ELSE [kind |-> "list", items |-> SelectSeq(cmdline_raw.text, LAMBDA t : ~IsSpace(t))]

\* _get_passwd
GetPasswd(uid_or_name) ==
    IF uid_or_name.text \in PasswdDB
    THEN Ret([kind |-> "passwd", pw_name |-> uid_or_name.text])
    ELSE ConfigError("user doesn't exist")

\* ProcessCheckSettings.from_pyhocon
ProcessCheckSettingsFromPyhocon(cfgtor, cconf) ==
    IF cconf.basename = None
    THEN [res |-> ConfigError("missing required argument"), trace |-> <<>>]
    ELSE LET cmdline == ParseCmdline(cconf.cmdline)
             user    == IF cconf.user = None THEN Ret(None) ELSE GetPasswd(cconf.user)
         IN  IF user.kind = "raise" THEN [res |-> user, trace |-> <<>>]
             ELSE LET oe == ActionListSettingsFromPyhocon(cfgtor, cconf.on_error)
                  IN  IF oe.res.kind = "raise" THEN oe
                      ELSE [res |-> Ret([class    |-> "ProcessCheckSettings",
                                         basename |-> cconf.basename.text,
                                         cmdline  |-> cmdline,
                                         user     |-> user.value,
                                         on_error |-> oe.res.value]),
                            trace |-> oe.trace]

\* --------------------------------------------- settings of the Email module
RECURSIVE FirstMissing(_, _, _)
FirstMissing(keys, missing, i) ==
    IF i > Len(keys) THEN ""
    ELSE IF keys[i] \in missing THEN keys[i]
    ELSE FirstMissing(keys, missing, i + 1)

\* EmailSettings.from_pyhocon and EmailSettings.__init__
EmailSettingsFromPyhocon(sect) ==
    IF FirstMissing(EmailRequired, sect.missing, 1) # ""
    THEN ConfigError("missing required argument")
    ELSE IF sect.port # "25" THEN ConfigError("invalid port value")
    ELSE Ret([class |-> "EmailSettings", port |-> 25])


\* ======================================================== the run phase
\* ModuleRunStatus
MRS_ok            == 0
MRS_check_failed  == 1
MRS_action_error  == 2
MRS_unknown_error == 3

Max2(a, b) == IF a >= b THEN a ELSE b

\* what an instance of a config.Settings subclass answers to getattr: its
\* instance attributes, the logger and the methods of config.Settings
HasAttr(obj, attr) == attr \in (DOMAIN obj \cup {"logger", "from_pyhocon", "_get_conf"})

\* ActionContext(*args): __init__(self, calling_module, dispatch, message)
ActionContext(args) ==
    IF Len(args) = 3
    THEN Ret([calling_module |-> args[1], dispatch |-> args[2], message |-> args[3]])
    ELSE Raise("TypeError")

\* Dispatch.execute_action(conf, context): the first statement is
\* conf.get_string('action'); conf is the ActionSettings object built at
\* load time, and _resolve_action reads config.modules_by_name, which the
\* Configurator does not have
ExecuteAction(aconf, context) ==
    IF ~HasAttr(aconf, "get_string") THEN Raise("AttributeError")
    ELSE Raise("AttributeError")

ActionEvent(aconf, outcome) ==
    [op |-> "execute_action", action_name |-> aconf.action_name, raised |-> outcome.kind = "raise"]

\* a loop that gives up at the first action that raises
RECURSIVE ActionListLoop_stops_at_error(_, _, _, _, _)
ActionListLoop_stops_at_error(list, context, i, all_ok, events) ==
    IF i > Len(list) \/ ~all_ok THEN [all_ok |-> all_ok, events |-> events]
    ELSE LET r == ExecuteAction(list[i], context)
         IN  ActionListLoop_stops_at_error(list, context, i + 1, r.kind # "raise",
                                           Append(events, ActionEvent(list[i], r)))

\* the loop of ActionList.run: every entry is tried, an exception is logged
\* and clears all_ok
RECURSIVE ActionListLoop(_, _, _, _, _)
ActionListLoop(list, context, i, all_ok, events) ==
    IF i > Len(list) THEN [all_ok |-> all_ok, events |-> events]
    ELSE LET r == ExecuteAction(list[i], context)
         IN  ActionListLoop(list, context, i + 1, all_ok /\ r.kind # "raise",
                            Append(events, ActionEvent(list[i], r)))

\* ActionList(logger, settings).run(context)
ActionListRun(settings, context) ==
    ActionListLoop(settings.action_settings_list, context, 1, TRUE, <<>>)

\* ------------------------------------------------------- Process module
\* ProcessModuleAPI._process_check_failed
ProcessCheckFailed(process_check, error_reason) ==
    LET context == ActionContext(<<"process", "dispatch", error_reason>>)
    IN  IF context.kind = "raise" THEN [ret |-> context, events |-> <<>>]
        ELSE LET r == ActionListRun(process_check.on_error, context.value)
             IN  [ret |-> Ret(r.all_ok), events |-> r.events]

CheckOutcome(failed, reason) ==
    [ret    |-> IF failed.ret.kind = "raise" THEN failed.ret
                ELSE Ret(IF failed.ret.value THEN MRS_check_failed ELSE MRS_action_error),
     reason |-> reason,
     events |-> failed.events]

CheckOk == [ret |-> Ret(MRS_ok), reason |-> "", events |-> <<>>]

\* ProcessModuleAPI.do_process_check; procs is what psutil.process_iter()
\* yields
DoProcessCheck(process_check, procs) ==
    LET basename     == process_check.basename
        cmdline      == process_check.cmdline
        user         == process_check.user
        name_matches == { p \in procs : p.name = basename }
        cmdline_matches == { p \in name_matches : p.cmdline = cmdline.items }
        user_matches == { p \in cmdline_matches : p.username = user.pw_name }
    IN  IF name_matches = {}
        THEN CheckOutcome(ProcessCheckFailed(process_check, "no match for basename"),
                          "no match for basename")
        ELSE IF cmdline # None /\ cmdline_matches = {}
        THEN CheckOutcome(ProcessCheckFailed(process_check, "no match for cmdline"),
                          "no match for cmdline")
        ELSE IF user # None /\ cmdline = None
        THEN \* cmdline_matches is bound only inside `if cmdline is not None`
             [ret |-> Raise("UnboundLocalError"), reason |-> "", events |-> <<>>]
        ELSE IF user # None /\ user_matches = {}
        THEN CheckOutcome(ProcessCheckFailed(process_check, "no match for user"),
                          "no match for user")
        ELSE CheckOk

\* ----------------------------------------------------------- FIB module
NullRouteTypes == {"blackhole", "unreachable", "prohibit"}

\* Route.is_null
IsNull(r) == r.rt_type \in NullRouteTypes

\* FIBModuleAPI._route_check_failed: the context is built from two arguments;
\* the actions of on_error are then run one by one, errors caught
RouteCheckFailed(route_check, error_reason) ==
    LET context == ActionContext(<<"fib_linux", error_reason>>)
    IN  IF context.kind = "raise" THEN [ret |-> context, events |-> <<>>]
        ELSE LET r == ActionListLoop(route_check.on_error, context.value, 1, TRUE, <<>>)
             IN  [ret |-> Ret(r.all_ok), events |-> r.events]

\* FIBModuleAPI.do_route_check; lookup is what self.fib.get_route_to(rm)
\* returns or raises
DoRouteCheck(route_check, lookup) ==
    IF lookup.kind = "raise"
    THEN [ret |-> lookup, reason |-> "", events |-> <<>>]
    ELSE LET r == lookup.value IN
         IF r = None
         THEN CheckOutcome(RouteCheckFailed(route_check, "not found"), "not found")
         ELSE IF route_check.non_null /\ IsNull(r)
         THEN CheckOutcome(RouteCheckFailed(route_check, "should be non-null"),
                           "should be non-null")
         ELSE IF /\ route_check.nexthops_any # <<>>
                 /\ ~ \E i \in 1..Len(r.nexthops) :
                        \E j \in 1..Len(route_check.nexthops_any) :
                           r.nexthops[i].gw = route_check.nexthops_any[j]
         THEN CheckOutcome(RouteCheckFailed(route_check, "not in nexthops_any"),
                           "not in nexthops_any")
         ELSE CheckOk

\* --------------------------------------------------- the run() methods
DoCheck(kind, check, env) ==
    IF kind = "fib" THEN DoRouteCheck(check, env) ELSE DoProcessCheck(check, env)

\* the for loop of FIBModuleAPI.run / ProcessModuleAPI.run: the sub-status
\* of every check is folded with max; an exception of a check leaves run()
RECURSIVE RunLoop(_, _, _, _, _, _)
RunLoop(kind, checks, envs, i, status, done) ==
    IF i > Len(checks) THEN [ret |-> Ret(status), checks |-> done]
    ELSE LET c == DoCheck(kind, checks[i], envs[i])
         IN  IF c.ret.kind = "raise"
             THEN [ret |-> c.ret, checks |-> Append(done, c)]
             ELSE RunLoop(kind, checks, envs, i + 1, Max2(status, c.ret.value),
                          Append(done, c))

\* FIBModuleAPI.run
FIBRun(settings, lookups) ==
    RunLoop("fib", settings.route_checks, lookups, 1, MRS_ok, <<>>)

\* ProcessModuleAPI.run
ProcessRun(settings, snapshots) ==
    RunLoop("process", settings.process_checks, snapshots, 1, MRS_ok, <<>>)

\* ModuleAPI.run: modules that only provide actions
BaseRun == [ret |-> Ret(MRS_ok), checks |-> <<>>]

\* ------------------------------------------------------------- logging
LogRec(level, what, name) == [level |-> level, what |-> what, name |-> name]

\* ------------------------------------------------- the program: start-up
Confs ==
    { [has_modules |-> FALSE, modules |-> <<>>, sections |-> EmptyMap] }
    \cup { [has_modules |-> TRUE, modules |-> m, sections |-> EmptyMap] :
           m \in BoundedSeq(ModNames, MaxModules) }

\* the attributes Configurator.__init__ sets, besides conf and the logger
NewConfigurator == [filename |-> "netforeman.conf"]

Init ==
    /\ pc = "main"
    /\ conf \in Confs
    /\ idx = 0
    /\ errors = FALSE
    /\ configurator = NewConfigurator
    /\ log = <<>>
    /\ parse = <<>>
    /\ resolves = <<>>
    /\ load_ret = None
    /\ main_ret = None
    /\ call = None
    /\ ret = None
    /\ tcam = EmptyMap
    /\ latest = EmptyMap

\* ---------------------------------------- Configurator.load_modules
\* the statements before the for loop
LoadModulesStart ==
    /\ UNCHANGED <<call, ret, objects>>
    /\ pc = "main"
    /\ IF ~conf.has_modules
       THEN /\ log' = Append(log, LogRec("error", "missing mandatory section", <<"modules">>))
            /\ load_ret' = Ret(FALSE)
            /\ pc' = "loaded"
            /\ UNCHANGED <<idx, errors, configurator>>
       ELSE /\ errors' = FALSE
            /\ configurator' = [filename                   |-> configurator.filename,
                                loaded_apis                |-> <<>>,
                                module_api_classes_by_name |-> EmptyMap,
                                module_apis_by_name        |-> EmptyMap]
            /\ idx' = 1
            /\ pc' = "loading"
            /\ UNCHANGED <<log, load_ret>>
    /\ UNCHANGED <<conf, parse, resolves, main_ret>>

WithSection(c, name, sect) ==
    [c EXCEPT !.sections = (name :> sect) @@ c.sections]

WithClass(cfgtor, name, api_class) ==
    [cfgtor EXCEPT !.module_api_classes_by_name = (name :> api_class) @@ @]

\* module_apis_by_name[name] = api; loaded_apis.append(api)
WithApi(cfgtor, name, api) ==
    [cfgtor EXCEPT !.module_apis_by_name = (name :> api) @@ @,
                   !.loaded_apis = Append(@, api)]

\* an exception that load_modules does not catch leaves Dispatch.__init__
\* and main(), which handles DispatchError only
Escape(exc) ==
    /\ load_ret' = Raise(exc)
    /\ main_ret' = Raise(exc)
    /\ pc' = "exit"

\* one iteration of the for loop, up to the point where the settings of the
\* module are parsed (the Email settings are parsed here, the checks of the
\* Process settings one by one in ParseProcessCheck)
LoadModuleBegin ==
    /\ UNCHANGED <<call, ret, objects>>
    /\ pc = "loading"
    /\ idx <= Len(conf.modules)
    /\ LET name == conf.modules[idx] IN
       IF name \in DOMAIN configurator.module_api_classes_by_name
       THEN /\ log' = Append(log, LogRec("warning", "ignoring duplicate entry", name))
            /\ idx' = idx + 1
            /\ UNCHANGED <<pc, conf, errors, configurator, parse, resolves, load_ret, main_ret>>
       ELSE \E sect \in (IF name \in DOMAIN conf.sections
                         THEN {conf.sections[name]} ELSE SectionChoices(name)) :
            /\ conf' = WithSection(conf, name, sect)
            /\ IF sect = Absent
               THEN \* raise ConfigError("...".format(module_name)): the name
                    \* module_name is not defined in load_modules
                    /\ Escape("NameError")
                    /\ log' = Append(log, LogRec("debug", "loading module", name))
                    /\ UNCHANGED <<idx, errors, configurator, parse, resolves>>
               ELSE IF GetModuleApi(name).kind = "raise"
               THEN /\ Escape(GetModuleApi(name).exc)
                    /\ log' = Append(log, LogRec("debug", "loading module", name))
                    /\ UNCHANGED <<idx, errors, configurator, parse, resolves>>
               ELSE LET API  == GetModuleApi(name).value
                        cfg1 == WithClass(configurator, name, API)
                    IN  IF API = "ProcessModuleAPI"
                        THEN /\ configurator' = cfg1
                             /\ parse' = <<>>
                             /\ resolves' = <<>>
                             /\ pc' = "settings"
                             /\ log' = Append(log, LogRec("debug", "loading module", name))
                             /\ UNCHANGED <<idx, errors, load_ret, main_ret>>
                        ELSE LET settings == EmailSettingsFromPyhocon(sect) IN
                             /\ idx' = idx + 1
                             /\ IF settings.kind = "raise"
                                THEN /\ configurator' = cfg1
                                     /\ errors' = TRUE
                                     /\ log' = log \o << LogRec("debug", "loading module", name),
                                                         LogRec("error", settings.exc, name) >>
                                ELSE /\ configurator' =
                                          WithApi(cfg1, name, [class |-> API, name |-> name,
                                                               settings |-> settings.value])
                                     /\ errors' = errors
                                     /\ log' = Append(log, LogRec("debug", "loading module", name))
                             /\ UNCHANGED <<pc, parse, resolves, load_ret, main_ret>>

\* ProcessSettings.from_pyhocon: the next entry of process_checks
ParseProcessCheck ==
    /\ UNCHANGED <<call, ret, objects>>
    /\ pc = "settings"
    /\ Len(parse) < MaxConfChecks
    /\ LET name == conf.modules[idx] IN
       \E cconf \in CheckConfs :
          LET r == ProcessCheckSettingsFromPyhocon(configurator, cconf) IN
          /\ conf' = [conf EXCEPT !.sections[name].process_checks = Append(@, cconf)]
          /\ resolves' = r.trace
          /\ IF r.res.kind = "raise"
             THEN /\ errors' = TRUE
                  /\ log' = Append(log, LogRec("error", r.res.exc, name))
                  /\ idx' = idx + 1
                  /\ parse' = <<>>
                  /\ pc' = "loading"
             ELSE /\ parse' = Append(parse, r.res.value)
                  /\ UNCHANGED <<errors, log, idx, pc>>
    /\ UNCHANGED <<configurator, load_ret, main_ret>>

\* process_checks has no further entry: ProcessSettings and the API instance
\* are built and recorded
FinishProcessModule ==
    /\ UNCHANGED <<call, ret, objects>>
    /\ pc = "settings"
    /\ LET name == conf.modules[idx]
           api  == [class |-> "ProcessModuleAPI", name |-> name,
                    settings |-> [class |-> "ProcessSettings", process_checks |-> parse]]
       IN  configurator' = WithApi(configurator, name, api)
    /\ idx' = idx + 1
    /\ parse' = <<>>
    /\ pc' = "loading"
    /\ UNCHANGED <<conf, errors, log, resolves, load_ret, main_ret>>

\* a loader that reports success whatever happened
LoadModulesReturn_always_true ==
    /\ UNCHANGED <<call, ret, objects>>
    /\ pc = "loading"
    /\ idx > Len(conf.modules)
    /\ load_ret' = Ret(TRUE)
    /\ pc' = "loaded"
    /\ UNCHANGED <<conf, idx, errors, configurator, log, parse, resolves, main_ret>>

\* the for loop is over: return not errors
LoadModulesReturn ==
    /\ UNCHANGED <<call, ret, objects>>
    /\ pc = "loading"
    /\ idx > Len(conf.modules)
    /\ load_ret' = Ret(~errors)
    /\ pc' = "loaded"
    /\ UNCHANGED <<conf, idx, errors, configurator, log, parse, resolves, main_ret>>

\* --------------------------------------------------- Dispatch.__init__
DispatchInit ==
    /\ UNCHANGED <<call, ret, objects>>
    /\ pc = "loaded"
    /\ pc' = IF load_ret.value THEN "constructed" ELSE "DispatchError"
    /\ UNCHANGED <<conf, idx, errors, configurator, log, parse, resolves, load_ret, main_ret>>

\* main(): except dispatch.DispatchError
MainAbort ==
    /\ UNCHANGED <<call, ret, objects>>
    /\ pc = "DispatchError"
    /\ log' = Append(log, LogRec("error", "aborting", <<>>))
    /\ main_ret' = Ret(1)
    /\ pc' = "exit"
    /\ UNCHANGED <<conf, idx, errors, configurator, parse, resolves, load_ret>>

\* ------------------------------------------------------- Dispatch.run
\* the process tables the checks of a run may see
Proc(name, cmdline, username) == [name |-> name, cmdline |-> cmdline, username |-> username]

ProcCatalog ==
    { Proc("bird", <<"bird", "-f">>, "bird"),
      Proc("bird", <<"bird", "-f">>, "root"),
      Proc("bird", <<"bird", "-c">>, "bird"),
      Proc("sshd", <<"sshd">>, "root") }

Snapshots == SUBSET ProcCatalog

\* api.run() of a loaded module, every check seeing the same process table
ApiRun(api, procs) ==
    IF api.class = "ProcessModuleAPI"
    THEN ProcessRun(api.settings, [k \in 1..Len(api.settings.process_checks) |-> procs])
    ELSE BaseRun

\* for modinfo in self.config.loaded_modules: the status of run() is not
\* kept; return not errors
RECURSIVE DispatchRunLoop(_, _, _)
DispatchRunLoop(modules, procs, i) ==
    IF i > Len(modules) THEN Ret(TRUE)
    ELSE LET r == ApiRun(modules[i], procs).ret
         IN  IF r.kind = "raise" THEN r ELSE DispatchRunLoop(modules, procs, i + 1)

\* Dispatch.run: the Configurator has loaded_apis, module_apis_by_name and
\* module_api_classes_by_name, and no loaded_modules
DispatchRun(cfgtor, procs) ==
    IF "loaded_modules" \notin DOMAIN cfgtor THEN Raise("AttributeError")
    ELSE DispatchRunLoop(cfgtor.loaded_modules, procs, 1)

\* main(): status = dispatcher.run(); ...; return int(status)
MainRun ==
    /\ UNCHANGED <<call, ret, objects>>
    /\ pc = "constructed"
    /\ \E procs \in Snapshots :
         LET status == DispatchRun(configurator, procs) IN
         /\ main_ret' = IF status.kind = "raise" THEN status
                        ELSE Ret(IF status.value THEN 1 ELSE 0)
         /\ log' = IF status.kind = "raise" THEN log
                   ELSE Append(log, LogRec("info", "run finished", <<>>))
    /\ pc' = "exit"
    /\ UNCHANGED <<conf, idx, errors, configurator, parse, resolves, load_ret>>

Next ==
    \/ MainRun
    \/ LoadModulesStart
    \/ LoadModuleBegin
    \/ ParseProcessCheck
    \/ FinishProcessModule
    \/ LoadModulesReturn
    \/ DispatchInit
    \/ MainAbort

Spec == Init /\ [][Next]_vars

\* ================================================= properties: start-up
Listed == { conf.modules[k] : k \in 1..Len(conf.modules) }

LoadSucceeded == load_ret = Ret(TRUE)

\* the run() results of the loaded modules on one process table
RunResults(procs) ==
    { ApiRun(configurator.loaded_apis[i], procs).ret :
        i \in 1..Len(configurator.loaded_apis) }

\* C1: once the modules are loaded and the run is over, the value main()
\* returns (the exit code) is the greatest of the statuses the modules'
\* run() returned, ok when there is none.
C1_ExitCodeIsMaxStatus ==
    (pc = "exit" /\ LoadSucceeded) =>
        /\ main_ret.kind = "return"
        /\ \E procs \in Snapshots :
             (\A r \in RunResults(procs) : r.kind = "return") =>
                main_ret.value =
                    SetMax({MRS_ok} \cup { r.value : r \in RunResults(procs) })

\* C2: the run phase starts only when every listed module has been loaded;
\* when loading failed, constructing the Dispatch ends in DispatchError
\* (main() aborts with 1) and no run() is made.
C2_FailedLoadRaisesDispatchError ==
    /\ pc = "constructed" =>
          (LoadSucceeded /\ Listed \subseteq DOMAIN configurator.module_apis_by_name)
    /\ (pc = "exit" /\ load_ret # None /\ ~LoadSucceeded) => main_ret = Ret(1)

\* C3: an on_error entry that names an action of a module listed later in
\* `modules` (a real module that has this action) resolves when it is parsed.
C3_ForwardReferenceResolves ==
    \A i \in 1..Len(resolves) :
       LET rec == resolves[i]
           m   == RPartition(rec.action_name)[1]
           a   == RPartition(rec.action_name)[3]
       IN  ( /\ m \in Listed
             /\ m \notin rec.known
             /\ GetModuleApi(m).kind = "return"
             /\ a \in DOMAIN ApiActions(GetModuleApi(m).value) )
           => rec.result.kind = "return"

Attempted(name) ==
    \E i \in 1..Len(log) :
       /\ log[i].name = name
       /\ log[i].what \in {"loading module", "ignoring duplicate entry"}

\* C4: after a ConfigError of one module, load_modules still attempts every
\* later name of the list and ends by returning false.
C4_ConfigErrorDoesNotStopLoading ==
    (errors /\ load_ret # None) =>
        /\ \A k \in 1..Len(conf.modules) : Attempted(conf.modules[k])
        /\ load_ret = Ret(FALSE)

\* the names met so far that cannot be loaded: no section, or no such module
Unloadable ==
    { n \in DOMAIN conf.sections :
        conf.sections[n] = Absent \/ GetModuleApi(n).kind = "raise" }

\* C5: a name without a section or without a module is a ConfigError the
\* loader handles: the error is recorded and no exception leaves load_modules.
C5_LoadFailureIsConfigError ==
    Unloadable # {} => (errors /\ load_ret.kind # "raise")

\* what resolving `name` must give when the classes of `known` are loaded
ExpectedResolve(name, known) ==
    LET dots   == DotPositions(name)
        last   == SetMax(dots)
        module == SubSeq(name, 1, last - 1)
        action == SubSeq(name, last + 1, Len(name))
    IN  IF dots = {} \/ last = 1 THEN "missing module name"
        ELSE IF last = Len(name) THEN "missing action name"
        ELSE IF module \notin known THEN "no such module"
        ELSE IF ~ ( \/ module = EMAIL /\ action = <<"sendmail">>
                    \/ module = PROCESS /\ action = <<"execute">> )
             THEN "action not defined"
        ELSE "resolved"

\* C6: resolve_action splits the name at its rightmost dot and reports, in
\* this order: missing module name, missing action name, no such module,
\* action not defined; else it resolves.
C6_ResolveActionPrecedence ==
    \A i \in 1..Len(resolves) :
       LET rec  == resolves[i]
           want == ExpectedResolve(rec.action_name, rec.known)
       IN  IF want = "resolved" THEN rec.result.kind = "return"
           ELSE rec.result = ConfigError(want)

C6_Witness ==
    \E i \in 1..Len(resolves) :
       /\ resolves[i].action_name = <<"email", DOT, "sendmail", DOT, "x">>
       /\ EMAIL \in resolves[i].known
       /\ resolves[i].result = ConfigError("no such module")

\* C7: when load_modules returned true, every name with a recorded class has
\* a recorded instance, of that class.
C7_ClassesHaveInstances ==
    LoadSucceeded =>
       \A n \in DOMAIN configurator.module_api_classes_by_name :
          /\ n \in DOMAIN configurator.module_apis_by_name
          /\ configurator.module_apis_by_name[n].class =
                configurator.module_api_classes_by_name[n]
          /\ \A name \in ActionNames :
                (RPartition(name)[1] = n /\ ResolveAction(configurator, name).kind = "return")
                   => ResolveAction(configurator, name).value.api # None

C7_Witness ==
    /\ LoadSucceeded
    /\ Cardinality(DOMAIN configurator.module_api_classes_by_name) = 2

\* ==================================================== methods on their own
MaxActions == 3     \* longest on_error list of a check at run time
MaxChecks  == 2     \* most checks in the settings of a module at run time

\* the action settings configure_action can build
ActionSettingsSet ==
    { [class |-> "ActionSendEmailSettings", action_name |-> <<"email", DOT, "sendmail">>],
      [class |-> "ActionExecuteSettings", action_name |-> <<"process", DOT, "execute">>] }

ActionLists == BoundedSeq(ActionSettingsSet, MaxActions)

Contexts ==
    { [calling_module |-> m, dispatch |-> "dispatch", message |-> msg] :
        m \in {"process", "fib_linux"}, msg \in {"not found", "no match for basename"} }

\* every variable of the start-up is at rest while a method is studied
AtRest ==
    /\ pc = "method"
    /\ conf = [has_modules |-> FALSE, modules |-> <<>>, sections |-> EmptyMap]
    /\ idx = 0
    /\ errors = FALSE
    /\ configurator = NewConfigurator
    /\ log = <<>>
    /\ parse = <<>>
    /\ resolves = <<>>
    /\ load_ret = None
    /\ main_ret = None
    /\ ret = None
    /\ tcam = EmptyMap
    /\ latest = EmptyMap

startup == <<pc, conf, idx, errors, configurator, log, parse, resolves, load_ret, main_ret>>

\* ------------------------------------------------------- ActionList.run
ActionListCalls ==
    { [fn |-> "ActionList.run",
       settings |-> [class |-> "ActionListSettings", action_settings_list |-> l],
       context |-> c] : l \in ActionLists, c \in Contexts }

InitActionList == AtRest /\ call \in ActionListCalls

CallActionListRun ==
    /\ call.fn = "ActionList.run"
    /\ ret = None
    /\ ret' = ActionListRun(call.settings, call.context)
    /\ UNCHANGED <<startup, call, objects>>

NextActionList == CallActionListRun

SpecActionList == InitActionList /\ [][NextActionList]_vars

\* ------------------------------------ do_route_check / do_process_check
IP(n) == [kind |-> "ip", value |-> n]
Net(n, len) == [ip |-> n, prefixlen |-> len]

DestCatalog == { Net(0, 0), Net(8, 1) }

\* RouteCheckSettings objects: required next hops force non_null
RouteCheckSet ==
    { [class |-> "RouteCheckSettings", rm |-> [dest |-> d, destlen |-> d.prefixlen],
       non_null |-> nn.non_null, nexthops_any |-> nn.nexthops_any, on_error |-> oe] :
        d \in DestCatalog,
        nn \in { [non_null |-> FALSE, nexthops_any |-> <<>>],
                 [non_null |-> TRUE,  nexthops_any |-> <<>>],
                 [non_null |-> TRUE,  nexthops_any |-> <<IP(1)>>],
                 [non_null |-> TRUE,  nexthops_any |-> <<IP(1), IP(2)>>] },
        oe \in ActionLists }

\* the routes a FIB may answer with; the gateway of a connected route is None
RouteCatalog ==
    { [dest |-> Net(0, 0), destlen |-> 0, nexthops |-> nhs, rt_type |-> t] :
        nhs \in { << [gw |-> IP(1)] >>, << [gw |-> IP(3)] >>,
                  << [gw |-> IP(3)], [gw |-> IP(2)] >>, << [gw |-> None] >> },
        t \in {"unicast", "unreachable", "blackhole"} }

\* FIBInterface.get_route_to: a route, nothing, or FIBError
Lookups == {Ret(None), Raise("FIBError")} \cup { Ret(r) : r \in RouteCatalog }

\* ProcessCheckSettings objects
ProcessCheckSet ==
    { [class |-> "ProcessCheckSettings", basename |-> "bird", cmdline |-> c, user |-> u,
       on_error |-> [class |-> "ActionListSettings", action_settings_list |-> oe]] :
        c \in {None, [kind |-> "list", items |-> <<"bird", "-f">>]},
        u \in {None} \cup { [kind |-> "passwd", pw_name |-> n] : n \in PasswdDB },
        oe \in ActionLists }

CheckCalls ==
    { [fn |-> "do_route_check", check |-> c, env |-> l] : c \in RouteCheckSet, l \in Lookups }
    \cup { [fn |-> "do_process_check", check |-> c, env |-> ps] :
             c \in ProcessCheckSet, ps \in Snapshots }

InitCheck == AtRest /\ call \in CheckCalls

CallDoRouteCheck ==
    /\ call.fn = "do_route_check"
    /\ ret = None
    /\ ret' = DoRouteCheck(call.check, call.env)
    /\ UNCHANGED <<startup, call, objects>>

CallDoProcessCheck ==
    /\ call.fn = "do_process_check"
    /\ ret = None
    /\ ret' = DoProcessCheck(call.check, call.env)
    /\ UNCHANGED <<startup, call, objects>>

NextCheck == CallDoRouteCheck \/ CallDoProcessCheck

SpecCheck == InitCheck /\ [][NextCheck]_vars

\* --------------------------------------------------------------- run()
RunRouteChecks ==
    { c \in RouteCheckSet :
        /\ c.rm.dest = Net(0, 0)
        /\ Len(c.nexthops_any) <= 1
        /\ c.on_error \in { <<>>, << [class |-> "ActionSendEmailSettings",
                                      action_name |-> <<"email", DOT, "sendmail">>] >> } }

RunLookups ==
    { l \in Lookups :
        l.kind = "return" /\ l.value # None =>
           (l.value.nexthops = << [gw |-> IP(1)] >> /\ l.value.rt_type # "unreachable") }

RunProcessChecks ==
    { c \in ProcessCheckSet :
        /\ c.user \in {None, [kind |-> "passwd", pw_name |-> "bird"]}
        /\ Len(c.on_error.action_settings_list) = 1
        /\ c.on_error.action_settings_list[1].class = "ActionExecuteSettings" }

RunSnapshots ==
    { {}, {Proc("bird", <<"bird", "-f">>, "bird")}, {Proc("bird", <<"bird", "-c">>, "bird")} }

Firsts(pairs)  == [k \in 1..Len(pairs) |-> pairs[k][1]]
Seconds(pairs) == [k \in 1..Len(pairs) |-> pairs[k][2]]

RunCalls ==
    { [fn |-> "FIBModuleAPI.run",
       settings |-> [class |-> "FIBSettings", route_checks |-> Firsts(pairs)],
       env |-> Seconds(pairs)] :
        pairs \in BoundedSeq(RunRouteChecks \X RunLookups, MaxChecks) }
    \cup
    { [fn |-> "ProcessModuleAPI.run",
       settings |-> [class |-> "ProcessSettings", process_checks |-> Firsts(pairs)],
       env |-> Seconds(pairs)] :
        pairs \in BoundedSeq(RunProcessChecks \X RunSnapshots, MaxChecks) }

InitRun == AtRest /\ call \in RunCalls

CallFIBRun ==
    /\ call.fn = "FIBModuleAPI.run"
    /\ ret = None
    /\ ret' = FIBRun(call.settings, call.env)
    /\ UNCHANGED <<startup, call, objects>>

CallProcessRun ==
    /\ call.fn = "ProcessModuleAPI.run"
    /\ ret = None
    /\ ret' = ProcessRun(call.settings, call.env)
    /\ UNCHANGED <<startup, call, objects>>

NextRun == CallFIBRun \/ CallProcessRun

SpecRun == InitRun /\ [][NextRun]_vars

\* ===================================================== properties: run
\* C8: ActionList.run tries every entry of its list once, in the order of
\* the list, whether or not earlier entries raised; no exception leaves it,
\* and it returns true exactly when no entry raised.
C8_ActionListRunsAll ==
    (call # None /\ call.fn = "ActionList.run" /\ ret # None) =>
        LET list == call.settings.action_settings_list IN
        /\ DOMAIN ret = {"all_ok", "events"}
        /\ Len(ret.events) = Len(list)
        /\ \A i \in 1..Len(list) : ret.events[i].action_name = list[i].action_name
        /\ ret.all_ok = (\A i \in 1..Len(list) : ~ret.events[i].raised)

C8_Witness ==
    /\ call # None /\ call.fn = "ActionList.run" /\ ret # None
    /\ Len(call.settings.action_settings_list) = 3
    /\ ret.events[1].raised
    /\ Len(ret.events) = 3
    /\ ~ret.all_ok

ChecksOf(c) ==
    IF c.fn = "FIBModuleAPI.run" THEN c.settings.route_checks
    ELSE c.settings.process_checks

\* C9: run() of the FIB and of the Process module evaluates every check of
\* its settings, in order, whatever earlier checks gave, and returns the
\* greatest sub-status (ok without checks).
C9_RunEvaluatesEveryCheck ==
    (call # None /\ call.fn \in {"FIBModuleAPI.run", "ProcessModuleAPI.run"} /\ ret # None) =>
        /\ Len(ret.checks) = Len(ChecksOf(call))
        /\ ret.ret.kind = "return"
        /\ \A k \in 1..Len(ret.checks) : ret.checks[k].ret.kind = "return"
        /\ ret.ret.value =
              SetMax({MRS_ok} \cup { ret.checks[k].ret.value : k \in 1..Len(ret.checks) })

\* whether the route found for a check meets what the check asks
RoutePasses(check, lookup) ==
    /\ lookup.value # None
    /\ check.non_null => lookup.value.rt_type \notin NullRouteTypes
    /\ \/ check.nexthops_any = <<>>
       \/ \E i \in 1..Len(lookup.value.nexthops), j \in 1..Len(check.nexthops_any) :
             lookup.value.nexthops[i].gw = check.nexthops_any[j]

\* C10: a route check that succeeds returns ok without executing an action;
\* one that fails executes the actions of on_error and returns check_failed
\* when none of them raised, action_error otherwise.
C10_RouteCheckOutcome ==
    ( /\ call # None /\ call.fn = "do_route_check" /\ ret # None
      /\ call.env.kind = "return" ) =>
        IF RoutePasses(call.check, call.env)
        THEN ret.ret = Ret(MRS_ok) /\ ret.events = <<>>
        ELSE /\ Len(ret.events) = Len(call.check.on_error)
             /\ \A i \in 1..Len(ret.events) :
                   ret.events[i].action_name = call.check.on_error[i].action_name
             /\ ret.ret = Ret(IF \E i \in 1..Len(ret.events) : ret.events[i].raised
                              THEN MRS_action_error ELSE MRS_check_failed)

\* the reason do_route_check must give for a route found (or not) by the FIB,
\* "" when the check is met
ExpectedRouteReason(check, lookup) ==
    IF lookup.value = None THEN "not found"
    ELSE IF check.non_null /\ lookup.value.rt_type \in NullRouteTypes
    THEN "should be non-null"
    ELSE IF /\ check.nexthops_any # <<>>
            /\ \A i \in 1..Len(lookup.value.nexthops) :
                  \A j \in 1..Len(check.nexthops_any) :
                     lookup.value.nexthops[i].gw # check.nexthops_any[j]
    THEN "not in nexthops_any"
    ELSE ""

\* C11: do_route_check tests, in this order, route not found, null route
\* while non_null, no gateway in nexthops_any, and stops at the first that
\* holds: on_error is run once, with the reason of that condition; a route
\* with one gateway (of possibly several) in nexthops_any passes that test.
C11_RouteCheckOrder ==
    ( /\ call # None /\ call.fn = "do_route_check" /\ ret # None
      /\ call.env.kind = "return" ) =>
        LET want == ExpectedRouteReason(call.check, call.env) IN
        /\ ret.reason = want
        /\ IF want = "" THEN ret.ret = Ret(MRS_ok) /\ ret.events = <<>>
           ELSE /\ ret.ret.kind = "return"
                /\ Len(ret.events) = Len(call.check.on_error)

\* C12: a FIBError of get_route_to is handled inside the route check as a
\* route not found: on_error runs and the check returns check_failed or
\* action_error.
C12_FIBErrorIsNotFound ==
    ( /\ call # None /\ call.fn = "do_route_check" /\ ret # None
      /\ call.env = Raise("FIBError") ) =>
        /\ ret.reason = "not found"
        /\ ret.ret \in {Ret(MRS_check_failed), Ret(MRS_action_error)}

\* the stage at which a process check must fail on a process table, "" when
\* some process meets the whole check
ExpectedProcessReason(check, procs) ==
    LET named == { p \in procs : p.name = check.basename }
        argv  == IF check.cmdline = None THEN named
                 ELSE { p \in named : p.cmdline = check.cmdline.items }
        owned == IF check.user = None THEN argv
                 ELSE { p \in argv : p.username = check.user.pw_name }
    IN  IF named = {} THEN "no match for basename"
        ELSE IF argv = {} THEN "no match for cmdline"
        ELSE IF owned = {} THEN "no match for user"
        ELSE ""

\* C13: whatever of cmdline and user is set, a process check returns ok
\* exactly when some process has the basename, the argv (if cmdline is set)
\* and the login name (if user is set); else it fails at the first unmet
\* stage, runs on_error once and returns check_failed or action_error.
C13_ProcessCheckOutcome ==
    (call # None /\ call.fn = "do_process_check" /\ ret # None) =>
        LET want == ExpectedProcessReason(call.check, call.env) IN
        IF want = "" THEN ret.ret = Ret(MRS_ok) /\ ret.events = <<>>
        ELSE /\ ret.reason = want
             /\ Len(ret.events) = Len(call.check.on_error.action_settings_list)
             /\ ret.ret \in {Ret(MRS_check_failed), Ret(MRS_action_error)}

\* ========================================================= route algebra
AddrBits == 2       \* bits of an IPv4 address; an IPv6 address has one more

Pow2(n) == 2 ^ n

\* 32 for IPv4, 128 for IPv6
Bits(version) == IF version = 4 THEN AddrBits ELSE AddrBits + 1

PyInt(n) == [kind |-> "int", value |-> n]
PyStr(t) == [kind |-> "str", text |-> t]

\* netaddr.IPAddress and netaddr.IPNetwork; the ip of a network keeps the
\* host bits it was written with
IPAddress(version, value) == [kind |-> "ip", version |-> version, value |-> value]
IPNetwork(version, ip, prefixlen) ==
    [kind |-> "net", version |-> version, ip |-> ip, prefixlen |-> prefixlen]

\* the address with the bits after the first `len` cleared
Masked(version, ip, len) ==
    (ip \div Pow2(Bits(version) - len)) * Pow2(Bits(version) - len)

\* IPNetwork.key(): (version, first, last); == and hash() of networks use it
NetKey(net) ==
    << net.version,
       Masked(net.version, net.ip, net.prefixlen),
       Masked(net.version, net.ip, net.prefixlen)
          + Pow2(Bits(net.version) - net.prefixlen) - 1 >>

\* dest == other for two destinations (a network never equals an address)
DestEq(a, b) ==
    IF a.kind = "net" /\ b.kind = "net" THEN NetKey(a) = NetKey(b)
    ELSE a = b

\* Route.validate_family
ValidateFamily(family) ==
    IF family \in {"AF_INET", "AF_INET6"} THEN Ret(family) ELSE Raise("ValueError")

FamilyVersion(family) == IF family = "AF_INET" THEN 4 ELSE 6

\* Route.default_network
DefaultNetwork(family) == IPNetwork(FamilyVersion(family), 0, 0)

\* Route.prefixlen_from_dest
PrefixlenFromDest(dest) ==
    IF dest.kind = "net" THEN dest.prefixlen ELSE Bits(dest.version)

\* NextHop(gw, ifname, nh_type)
NextHop(gw, ifname, nh_type) == [gw |-> gw, ifname |-> ifname, nh_type |-> nh_type]

\* an equality that lets a None field on either side match anything
NextHopEq_either_side(self, other) ==
    /\ (self.gw = None \/ other.gw = None \/ self.gw = other.gw)
    /\ (self.ifname = None \/ other.ifname = None \/ self.ifname = other.ifname)
    /\ (self.nh_type = None \/ other.nh_type = None \/ self.nh_type = other.nh_type)

\* NextHop.__eq__
NextHopEq(self, other) ==
    /\ (self.gw = None \/ self.gw = other.gw)
    /\ (self.ifname = None \/ self.ifname = other.ifname)
    /\ (self.nh_type = None \/ self.nh_type = other.nh_type)

\* == of two lists of NextHop: same length, and element by element
NextHopsEq(a, b) ==
    /\ Len(a) = Len(b)
    /\ \A i \in 1..Len(a) : NextHopEq(a[i], b[i])

\* Route.__init__
RouteInit(family, dest, destlen, nexthops, metric, proto, rt_type) ==
    IF ValidateFamily(family).kind = "raise" THEN Raise("ValueError")
    ELSE IF FamilyVersion(family) # dest.version THEN Raise("ValueError")
    ELSE IF PrefixlenFromDest(dest) # destlen THEN Raise("ValueError")
    ELSE IF destlen = 0 /\ ~DestEq(dest, DefaultNetwork(family)) THEN Raise("ValueError")
    ELSE Ret([class |-> "Route", family |-> family, dest |-> dest,
              destlen |-> PyInt(destlen), nexthops |-> nexthops, metric |-> metric,
              proto |-> proto, rt_type |-> rt_type,
              is_default |-> (destlen = 0), multipath |-> (Len(nexthops) > 1)])

\* RouteMatch.__init__; kw holds the arguments of the call, kw.given the
\* names of those without a default that the caller supplied
RouteMatchInit(kw) ==
    IF "family" \notin kw.given THEN Raise("TypeError")
    ELSE IF ValidateFamily(kw.family).kind = "raise" THEN Raise("ValueError")
    ELSE IF kw.dest # None
    THEN IF FamilyVersion(kw.family) # kw.dest.version THEN Raise("ValueError")
         ELSE IF kw.destlen # None /\ PrefixlenFromDest(kw.dest) # kw.destlen.value
         THEN Raise("ValueError")
         ELSE \* `if self.destlen == 0`: no destlen attribute is set yet
              Raise("AttributeError")
    ELSE Ret([class |-> "RouteMatch", family |-> kw.family, dest |-> kw.dest,
              destlen |-> kw.destlen, nexthops |-> kw.nexthops, metric |-> kw.metric,
              proto |-> kw.proto, rt_type |-> kw.rt_type,
              is_default |-> (kw.destlen = PyInt(0)), multipath |-> (Len(kw.nexthops) > 1)])

\* Route.__eq__
RouteEq(self, other) ==
    /\ self.family = other.family
    /\ DestEq(self.dest, other.dest)
    /\ self.destlen = other.destlen
    /\ NextHopsEq(self.nexthops, other.nexthops)
    /\ self.metric = other.metric
    /\ self.proto = other.proto
    /\ self.rt_type = other.rt_type

\* RouteMatch.__eq__
RouteMatchEq(self, other) ==
    /\ self.family = other.family
    /\ (self.dest = None \/ DestEq(self.dest, other.dest))
    /\ (self.dest = None \/ self.destlen = other.destlen)
    /\ (self.nexthops = <<>> \/ NextHopsEq(self.nexthops, other.nexthops))
    /\ (self.metric = None \/ self.metric = other.metric)
    /\ (self.proto = None \/ self.proto = other.proto)
    /\ (self.rt_type = None \/ self.rt_type = other.rt_type)

\* r != other: Route.__ne__ is `not self.__eq__(other)`, with the __eq__ of
\* the class of r
RouteNe(r, other) ==
    ~ (IF r.class = "RouteMatch" THEN RouteMatchEq(r, other) ELSE RouteEq(r, other))

\* ------------------------------------------------- objects of the algebra
NHType(name) == [kind |-> "NHType", name |-> name]

GwCatalog == { IPAddress(4, 1), IPAddress(4, 2) }

\* next hops, patterns included: every field may be None
NextHops ==
    { NextHop(g, i, t) :
        g \in {None} \cup GwCatalog,
        i \in {None, PyStr("eth0"), PyStr("eth1")},
        t \in {None, NHType("connected"), NHType("via")} }

\* destinations; IPNetwork(4, 3, 1) is IPNetwork(4, 2, 1) written with a host bit
NetCatalog ==
    { IPNetwork(4, 0, 0), IPNetwork(4, 2, 1), IPNetwork(4, 3, 1), IPNetwork(4, 2, 2),
      IPNetwork(6, 0, 0) }

NextHopLists ==
    { << NextHop(IPAddress(4, 1), PyStr("eth0"), NHType("via")) >>,
      << NextHop(IPAddress(4, 2), PyStr("eth1"), NHType("via")) >>,
      << NextHop(None, PyStr("eth0"), NHType("connected")) >> }

\* the Route objects Route.__init__ builds for these destinations
RouteArgs ==
    { a \in [family : {"AF_INET", "AF_INET6"}, dest : NetCatalog, nexthops : NextHopLists] :
        RouteInit(a.family, a.dest, a.dest.prefixlen, a.nexthops,
                  None, PyStr("static"), PyStr("unicast")).kind = "return" }

Routes ==
    { RouteInit(a.family, a.dest, a.dest.prefixlen, a.nexthops,
                None, PyStr("static"), PyStr("unicast")).value : a \in RouteArgs }

\* the arguments of a RouteMatch(...) call
RouteMatchKws ==
    [ given    : { {}, {"family"} },
      family   : { "AF_INET", "AF_INET6", "AF_UNIX" },
      dest     : {None, IPAddress(4, 1)} \cup NetCatalog,
      destlen  : { None, PyInt(0), PyInt(1) },
      nexthops : { <<>> },
      metric   : { None },
      proto    : { None },
      rt_type  : { None, PyStr("unicast") } ]

AlgebraCalls ==
    { [fn |-> "NextHop.__eq__", self |-> a, other |-> b] : a \in NextHops, b \in NextHops }
    \cup { [fn |-> "RouteMatch", kw |-> kw] : kw \in RouteMatchKws }

InitAlgebra == AtRest /\ call \in AlgebraCalls

CallNextHopEq ==
    /\ call.fn = "NextHop.__eq__"
    /\ ret = None
    /\ ret' = Ret(NextHopEq(call.self, call.other))
    /\ UNCHANGED <<startup, call, objects>>

CallRouteMatch ==
    /\ call.fn = "RouteMatch"
    /\ ret = None
    /\ ret' = RouteMatchInit(call.kw)
    /\ UNCHANGED <<startup, call, objects>>

NextAlgebra == CallNextHopEq \/ CallRouteMatch

SpecAlgebra == InitAlgebra /\ [][NextAlgebra]_vars

\* C18: RouteMatch(dest=D) can be constructed, takes its destlen from the
\* prefix length of D, and equals every Route of the family of D whose dest
\* is D, whatever the other fields of the Route.
C18_RouteMatchByDest ==
    ( /\ call # None /\ call.fn = "RouteMatch" /\ ret # None
      /\ call.kw.dest # None /\ call.kw.dest.kind = "net"
      /\ call.kw.destlen = None /\ call.kw.rt_type = None
      /\ "family" \in call.kw.given =>
            (call.kw.family \in {"AF_INET", "AF_INET6"}
             /\ FamilyVersion(call.kw.family) = call.kw.dest.version) ) =>
        /\ ret.kind = "return"
        /\ ret.value.destlen = PyInt(call.kw.dest.prefixlen)
        /\ \A r \in Routes :
              (r.dest.version = call.kw.dest.version /\ DestEq(r.dest, call.kw.dest))
                 => RouteMatchEq(ret.value, r)

\* each field equal, or None on at least one side
EitherSideTolerant(a, b) ==
    \A f \in {"gw", "ifname", "nh_type"} : a[f] = None \/ b[f] = None \/ a[f] = b[f]

\* C19 as claimed: a == b holds exactly when every field is equal or None on
\* at least one side, so that a == b and b == a agree.
C19_NextHopEqEitherSide ==
    (call # None /\ call.fn = "NextHop.__eq__" /\ ret # None) =>
        /\ ret.value = EitherSideTolerant(call.self, call.other)
        /\ ret.value = NextHopEq(call.other, call.self)

\* C19 as the code has it: a == b holds exactly when every field of a is
\* None or equal to that field of b; None fields of b are not tolerated.
C19_NextHopEqLeftTolerant ==
    (call # None /\ call.fn = "NextHop.__eq__" /\ ret # None) =>
        ret.value = (\A f \in {"gw", "ifname", "nh_type"} :
                        call.self[f] = None \/ call.self[f] = call.other[f])

\* a == b holds through a None field of a while b == a does not
C19_Witness ==
    /\ call # None /\ call.fn = "NextHop.__eq__" /\ ret # None
    /\ call.self.gw = None /\ call.other.gw # None
    /\ ret.value
    /\ ~NextHopEq(call.other, call.self)

\* ------------------------------------------------------------------ TCAM
MapPut(f, k, v) == [x \in DOMAIN f \cup {k} |-> IF x = k THEN v ELSE f[x]]
MapDel(f, k) == [x \in DOMAIN f \ {k} |-> f[x]]

\* TCAM.add, with the first of two routes to a dest kept
TcamAdd_keeps_existing(t, r) ==
    LET destlen == r.destlen.value
        k == NetKey(r.dest)
    IN  IF destlen \in DOMAIN t
        THEN IF k \in DOMAIN t[destlen] THEN t
             ELSE [t EXCEPT ![destlen] = MapPut(@, k, r)]
        ELSE MapPut(t, destlen, MapPut(EmptyMap, k, r))

\* TCAM.add: the dests_by_len after add(r)
TcamAdd(t, r) ==
    LET destlen == r.destlen.value
        k == NetKey(r.dest)
    IN  IF destlen \in DOMAIN t
        THEN [t EXCEPT ![destlen] = MapPut(@, k, r)]
        ELSE MapPut(t, destlen, MapPut(EmptyMap, k, r))

\* TCAM.remove, without the comparison of r with the stored route
TcamRemove_unchecked(t, r) ==
    IF r.destlen = None THEN [ret |-> Raise("ValueError"), tcam |-> t]
    ELSE IF r.dest = None THEN [ret |-> Raise("ValueError"), tcam |-> t]
    ELSE IF r.destlen.value \notin DOMAIN t THEN [ret |-> Raise("KeyError"), tcam |-> t]
    ELSE IF NetKey(r.dest) \notin DOMAIN t[r.destlen.value]
    THEN [ret |-> Raise("KeyError"), tcam |-> t]
    ELSE LET routes_by_dest == MapDel(t[r.destlen.value], NetKey(r.dest))
         IN  [ret  |-> Ret(None),
              tcam |-> IF DOMAIN routes_by_dest = {} THEN MapDel(t, r.destlen.value)
                       ELSE [t EXCEPT ![r.destlen.value] = routes_by_dest]]

\* TCAM.remove, with the emptied inner dict left in place
TcamRemove_keeps_empty(t, r) ==
    IF r.destlen = None THEN [ret |-> Raise("ValueError"), tcam |-> t]
    ELSE IF r.dest = None THEN [ret |-> Raise("ValueError"), tcam |-> t]
    ELSE IF r.destlen.value \notin DOMAIN t THEN [ret |-> Raise("KeyError"), tcam |-> t]
    ELSE IF NetKey(r.dest) \notin DOMAIN t[r.destlen.value]
    THEN [ret |-> Raise("KeyError"), tcam |-> t]
    ELSE IF RouteNe(r, t[r.destlen.value][NetKey(r.dest)])
    THEN [ret |-> Raise("KeyError"), tcam |-> t]
    ELSE [ret  |-> Ret(None),
          tcam |-> [t EXCEPT ![r.destlen.value] = MapDel(@, NetKey(r.dest))]]

\* TCAM.remove: what remove(r) raises or returns, and the dests_by_len after it
TcamRemove(t, r) ==
    IF r.destlen = None THEN [ret |-> Raise("ValueError"), tcam |-> t]
    ELSE IF r.dest = None THEN [ret |-> Raise("ValueError"), tcam |-> t]
    ELSE IF r.destlen.value \notin DOMAIN t THEN [ret |-> Raise("KeyError"), tcam |-> t]
    ELSE IF NetKey(r.dest) \notin DOMAIN t[r.destlen.value]
    THEN [ret |-> Raise("KeyError"), tcam |-> t]
    ELSE IF RouteNe(r, t[r.destlen.value][NetKey(r.dest)])
    THEN [ret |-> Raise("KeyError"), tcam |-> t]
    ELSE LET routes_by_dest == MapDel(t[r.destlen.value], NetKey(r.dest))
         IN  [ret  |-> Ret(None),
              tcam |-> IF DOMAIN routes_by_dest = {} THEN MapDel(t, r.destlen.value)
                       ELSE [t EXCEPT ![r.destlen.value] = routes_by_dest]]

\* TCAM.get_exact
TcamGetExact(t, dest) ==
    IF dest.kind # "net" THEN Raise("TypeError")
    ELSE IF dest.prefixlen \in DOMAIN t /\ NetKey(dest) \in DOMAIN t[dest.prefixlen]
    THEN Ret(t[dest.prefixlen][NetKey(dest)])
    ELSE Ret(None)

\* the lengths of a set, longest first
RECURSIVE SortedReverse(_)
SortedReverse(lens) ==
    IF lens = {} THEN <<>> ELSE <<SetMax(lens)>> \o SortedReverse(lens \ {SetMax(lens)})

\* the lengths of a set, shortest first
RECURSIVE SortedForward(_)
SortedForward(lens) ==
    IF lens = {} THEN <<>> ELSE <<SetMin(lens)>> \o SortedForward(lens \ {SetMin(lens)})

\* the loop of longest_match over the lengths in the order given
RECURSIVE LongestMatchLoop(_, _, _, _)
LongestMatchLoop(t, version, ip, lens) ==
    IF lens = <<>> THEN None
    ELSE LET truncated == IPNetwork(version, Masked(version, ip, Head(lens)), Head(lens))
         IN  IF NetKey(truncated) \in DOMAIN t[Head(lens)]
             THEN t[Head(lens)][NetKey(truncated)]
             ELSE LongestMatchLoop(t, version, ip, Tail(lens))

\* TCAM.longest_match, with the lengths tried shortest first
TcamLongestMatch_shortest_first(t, dest) ==
    LET maxlen == IF dest.kind = "net" THEN dest.prefixlen ELSE Bits(dest.version)
        ip == IF dest.kind = "net" THEN dest.ip ELSE dest.value
        interesting_lens == { x \in DOMAIN t : x <= maxlen }
    IN  Ret(LongestMatchLoop(t, dest.version, ip, SortedForward(interesting_lens)))

\* TCAM.longest_match
TcamLongestMatch(t, dest) ==
    LET maxlen == IF dest.kind = "net" THEN dest.prefixlen ELSE Bits(dest.version)
        ip == IF dest.kind = "net" THEN dest.ip ELSE dest.value
        interesting_lens == { x \in DOMAIN t : x <= maxlen }
    IN  Ret(LongestMatchLoop(t, dest.version, ip, SortedReverse(interesting_lens)))

\* the routes the TCAM is fed: two to each IPv4 dest, one to the IPv6 dest
TcamRoutes ==
    { r \in Routes :
        \/ r.nexthops = << NextHop(IPAddress(4, 1), PyStr("eth0"), NHType("via")) >>
        \/ r.family = "AF_INET"
           /\ r.nexthops = << NextHop(IPAddress(4, 2), PyStr("eth1"), NHType("via")) >> }

\* what remove() may be handed: routes, and the patterns that can be built
RemoveArgs ==
    TcamRoutes \cup
    { RouteMatchInit(kw).value :
        kw \in { k \in RouteMatchKws :
                   k.rt_type = None /\ RouteMatchInit(k).kind = "return" } }

\* what get_exact may be handed
GetExactDests == NetCatalog \cup { IPNetwork(4, 0, 1), IPAddress(4, 1) }

\* what longest_match may be handed: every IPv4 network and address, some IPv6
LookupDests ==
    { IPNetwork(4, ip, len) : ip \in 0 .. Pow2(AddrBits) - 1, len \in 0 .. AddrBits }
    \cup { IPAddress(4, ip) : ip \in 0 .. Pow2(AddrBits) - 1 }
    \cup { IPNetwork(6, 0, 0), IPNetwork(6, 4, 1), IPAddress(6, 0) }

InitTcam == AtRest /\ call = [fn |-> "TCAM"]

CallTcamAdd ==
    \E r \in TcamRoutes :
        /\ call' = [fn |-> "add", r |-> r]
        /\ tcam' = TcamAdd(tcam, r)
        /\ ret' = Ret(None)
        /\ latest' = MapPut(latest, NetKey(r.dest), r)
        /\ UNCHANGED startup

CallTcamRemove ==
    \E r \in RemoveArgs :
        /\ call' = [fn |-> "remove", r |-> r]
        /\ tcam' = TcamRemove(tcam, r).tcam
        /\ ret' = TcamRemove(tcam, r).ret
        /\ latest' = IF TcamRemove(tcam, r).ret.kind = "return"
                     THEN MapDel(latest, NetKey(r.dest)) ELSE latest
        /\ UNCHANGED startup

CallTcamGetExact ==
    \E dest \in GetExactDests :
        /\ call' = [fn |-> "get_exact", dest |-> dest]
        /\ ret' = TcamGetExact(tcam, dest)
        /\ UNCHANGED <<startup, objects>>

CallTcamLongestMatch ==
    \E dest \in LookupDests :
        /\ call' = [fn |-> "longest_match", dest |-> dest]
        /\ ret' = TcamLongestMatch(tcam, dest)
        /\ UNCHANGED <<startup, objects>>

NextTcam == CallTcamAdd \/ CallTcamRemove \/ CallTcamGetExact \/ CallTcamLongestMatch

SpecTcam == InitTcam /\ [][NextTcam]_vars

\* C14: get_exact(d) returns the route added last with dest d, unless a
\* remove has succeeded for d since, and None when there is none.
C14_GetExactReturnsLatest ==
    (call.fn = "get_exact" /\ call.dest.kind = "net") =>
        ret = Ret(IF NetKey(call.dest) \in DOMAIN latest
                  THEN latest[NetKey(call.dest)] ELSE None)

\* a second route to the same dest was added over the first and is returned
C14_Witness ==
    /\ call.fn = "get_exact" /\ call.dest.kind = "net"
    /\ ret.kind = "return" /\ ret.value # None
    /\ ret.value.nexthops = << NextHop(IPAddress(4, 2), PyStr("eth1"), NHType("via")) >>
    /\ ret.value.dest # call.dest

\* the stored routes, from the history of adds and removes
Stored == { latest[k] : k \in DOMAIN latest }

\* the routes that may answer longest_match(dest)
Qualifying(dest) ==
    LET maxlen == IF dest.kind = "net" THEN dest.prefixlen ELSE Bits(dest.version)
        ip == IF dest.kind = "net" THEN dest.ip ELSE dest.value
    IN  { r \in Stored :
            /\ r.dest.version = dest.version
            /\ r.destlen.value <= maxlen
            /\ NetKey(r.dest)[2] <= ip /\ ip <= NetKey(r.dest)[3] }

\* C15: longest_match(dest) returns the qualifying stored route of greatest
\* prefix length, and None exactly when no stored route qualifies.
C15_LongestMatchIsLongest ==
    call.fn = "longest_match" =>
        /\ ret.kind = "return"
        /\ (ret.value = None) <=> (Qualifying(call.dest) = {})
        /\ ret.value # None =>
              /\ ret.value \in Qualifying(call.dest)
              /\ \A r \in Qualifying(call.dest) : r.destlen.value <= ret.value.destlen.value

\* three nested prefixes are stored and the longest is returned
C15_Witness ==
    /\ call.fn = "longest_match"
    /\ Cardinality(Qualifying(call.dest)) = 3
    /\ ret.value # None
    /\ \A r \in Qualifying(call.dest) : r.destlen.value <= ret.value.destlen.value

\* remove(r) must be rejected: r lacks dest or destlen, nothing is stored
\* for r.dest, or the stored route differs from r
Rejected(r) ==
    \/ r.dest = None
    \/ r.destlen = None
    \/ NetKey(r.dest) \notin DOMAIN latest
    \/ RouteNe(r, latest[NetKey(r.dest)])

\* C16: a remove(r) that must be rejected raises and leaves the TCAM as it
\* was; any other remove(r) returns and takes away the entry for r.dest only.
C16_RemoveRejectsOrRemoves ==
    [][ call'.fn = "remove" =>
          IF Rejected(call'.r)
          THEN ret'.kind = "raise" /\ tcam' = tcam
          ELSE /\ ret'.kind = "return"
               /\ \A d \in NetCatalog :
                     TcamGetExact(tcam', d) =
                        IF NetKey(d) = NetKey(call'.r.dest) THEN Ret(None)
                        ELSE TcamGetExact(tcam, d) ]_vars

\* a route is stored for the dest but differs from r: remove(r) was rejected
C16_Witness ==
    /\ call.fn = "remove"
    /\ call.r.dest # None
    /\ NetKey(call.r.dest) \in DOMAIN latest
    /\ ret.kind = "raise"

\* ---------------------------------------------------------- RoutingTable
MaxRoutes == 3

\* Route.add_nexthops, with the new next hops put first
AddNexthops_prepend(r, nexthops) ==
    [r EXCEPT !.nexthops = nexthops \o @, !.multipath = TRUE]

\* Route.add_nexthops: the route object after the call
AddNexthops(r, nexthops) ==
    [r EXCEPT !.nexthops = @ \o nexthops, !.multipath = TRUE]

\* a change made in place to the route object r_, which the TCAM and the
\* list both refer to: it shows through both
InPlace(rt, r_, changed) ==
    [tcam   |-> TcamAdd(rt.tcam, changed),
     routes |-> [i \in 1 .. Len(rt.routes) |->
                    IF NetKey(rt.routes[i].dest) = NetKey(r_.dest) THEN changed
                    ELSE rt.routes[i]]]

\* the for loop of RoutingTable.__init__ over what is left of `routes`
RECURSIVE RoutingTableLoop(_, _)
RoutingTableLoop(rt, routes) ==
    IF routes = <<>> THEN rt
    ELSE LET r  == Head(routes)
             r_ == TcamGetExact(rt.tcam, r.dest).value
         IN  IF r_ = None
             THEN RoutingTableLoop([tcam   |-> TcamAdd(rt.tcam, r),
                                    routes |-> Append(rt.routes, r)], Tail(routes))
             ELSE RoutingTableLoop(InPlace(rt, r_, AddNexthops(r_, r.nexthops)),
                                   Tail(routes))

\* RoutingTable.__init__; routes is None or a list, [kind |-> "list", items |-> ...]
RoutingTableInit(routes) ==
    IF routes = None THEN [tcam |-> EmptyMap, routes |-> <<>>]
    ELSE RoutingTableLoop([tcam |-> EmptyMap, routes |-> <<>>], routes.items)

RoutingTableCalls ==
    { [fn |-> "RoutingTable", routes |-> rs] :
        rs \in {None} \cup { [kind |-> "list", items |-> l] :
                                l \in BoundedSeq(TcamRoutes, MaxRoutes) } }

InitRoutingTable == AtRest /\ call \in RoutingTableCalls

CallRoutingTable ==
    /\ call.fn = "RoutingTable"
    /\ ret = None
    /\ ret' = Ret(RoutingTableInit(call.routes))
    /\ UNCHANGED <<startup, call, objects>>

NextRoutingTable == CallRoutingTable

SpecRoutingTable == InitRoutingTable /\ [][NextRoutingTable]_vars

\* the positions of a list where a dest occurs for the first time
FirstOccurrences(l) ==
    { i \in 1 .. Len(l) : \A j \in 1 .. i - 1 : NetKey(l[j].dest) # NetKey(l[i].dest) }

\* the next hops of the routes of l to the dest of l[i], from position n on
RECURSIVE NextHopsTo(_, _, _)
NextHopsTo(l, i, n) ==
    IF n > Len(l) THEN <<>>
    ELSE (IF NetKey(l[n].dest) = NetKey(l[i].dest) THEN l[n].nexthops ELSE <<>>)
         \o NextHopsTo(l, i, n + 1)

\* the entries of a TCAM
TcamEntries(t) ==
    { e \in (DOMAIN t) \X UNION { DOMAIN t[x] : x \in DOMAIN t } : e[2] \in DOMAIN t[e[1]] }

\* C17: the table built from a list holds one route per distinct dest, in
\* the order the dests first occur; each is the first route to its dest with
\* the next hops of all routes to that dest, in input order; the TCAM holds
\* these same routes and no others.
C17_RoutingTableMerges ==
    (call.fn = "RoutingTable" /\ ret # None /\ call.routes # None) =>
        LET l  == call.routes.items
            rt == ret.value
        IN  /\ Len(rt.routes) = Cardinality(FirstOccurrences(l))
            /\ \A n \in 1 .. Len(rt.routes) :
                  \E i \in FirstOccurrences(l) :
                      /\ Cardinality({ j \in FirstOccurrences(l) : j <= i }) = n
                      /\ rt.routes[n].dest = l[i].dest
                      /\ rt.routes[n].metric = l[i].metric
                      /\ rt.routes[n].nexthops = NextHopsTo(l, i, 1)
                      /\ TcamGetExact(rt.tcam, l[i].dest) = Ret(rt.routes[n])
            /\ Cardinality(TcamEntries(rt.tcam)) = Len(rt.routes)

\* [r1, r2, r3] with r1.dest == r3.dest and another dest between them
C17_Witness ==
    /\ call.fn = "RoutingTable" /\ ret # None /\ call.routes # None
    /\ Len(call.routes.items) = 3
    /\ Len(ret.value.routes) = 2
    /\ ret.value.routes[1].nexthops =
          call.routes.items[1].nexthops \o call.routes.items[3].nexthops
    /\ call.routes.items[1].nexthops # call.routes.items[3].nexthops

\* ------------------------------------------------------ LinuxFIBInterface
MaxMsgs == 3

\* _nl_rttype_to_rttype: the route.RouteType of Netlink type number n is at n + 1
RouteType(name) == [kind |-> "RouteType", name |-> name]
NlRtTypes ==
    << RouteType("unspec"), RouteType("unicast"), RouteType("local"),
       RouteType("broadcast"), RouteType("anycast"), RouteType("multicast"),
       RouteType("blackhole"), RouteType("unreachable"), RouteType("prohibit"),
       RouteType("throw"), RouteType("nat"), RouteType("xresolve") >>

\* LinuxFIBInterface._get_rt_type
GetRtType(typenum) ==
    IF typenum + 1 \in DOMAIN NlRtTypes THEN Ret(NlRtTypes[typenum + 1])
    ELSE Raise("IndexError")

\* Route.family_from_dest, as linuxfib.py uses it
FamilyFromDest(dest) == IF dest.version = 4 THEN "AF_INET" ELSE "AF_INET6"

\* route.Route(dest, destlen, nexthops, metric, proto, rt_type), as
\* linuxfib.py calls it: the family comes from dest
RouteOfDest(dest, destlen, nexthops, metric, proto, rt_type) ==
    RouteInit(FamilyFromDest(dest), dest, destlen, nexthops, metric, proto, rt_type)

\* the RouteMatch for a destination alone, as a route check holds it
RouteMatchOfDest(dest) ==
    [class |-> "RouteMatch", family |-> FamilyFromDest(dest), dest |-> dest,
     destlen |-> PyInt(PrefixlenFromDest(dest)), nexthops |-> <<>>, metric |-> None,
     proto |-> None, rt_type |-> None,
     is_default |-> (PrefixlenFromDest(dest) = 0), multipath |-> FALSE]

\* an rtnetlink route message; RTA_DST is absent (None) on a default route
RtMsg(family, dst_len, dst, type, gateway) ==
    [family |-> family, dst_len |-> dst_len, RTA_DST |-> dst, type |-> type,
     RTA_GATEWAY |-> gateway]

\* the messages the kernel may hold: a default route, nested prefixes, null
\* routes, two routes to one dest, and an IPv6 default route
MsgCatalog ==
    { RtMsg("AF_INET", 0, None, 1, IPAddress(4, 1)),
      RtMsg("AF_INET", 1, PyInt(2), 1, IPAddress(4, 2)),
      RtMsg("AF_INET", 2, PyInt(2), 6, None),
      RtMsg("AF_INET", 2, PyInt(2), 1, IPAddress(4, 1)),
      RtMsg("AF_INET", 2, PyInt(3), 7, None),
      RtMsg("AF_INET6", 0, None, 1, None) }

ScanCodes == { "ENETUNREACH", "EHOSTUNREACH", "EACCES", "EINVAL" }
OtherCodes == { "EPERM", "ESRCH" }

NetlinkError(code) == [kind |-> "raise", exc |-> "NetlinkError", code |-> code]
FIBError(msg, orig) == [kind |-> "raise", exc |-> "FIBError", msg |-> msg, orig |-> orig]

\* the kernel: its main table, in dump order, and its answer to "route get"
Kernels ==
    [ table : BoundedSeq(MsgCatalog, MaxMsgs),
      get   : { NetlinkError(c) : c \in ScanCodes \cup OtherCodes }
              \cup { Ret(<< m >>) : m \in { RtMsg("AF_INET", 2, PyInt(2), 1, IPAddress(4, 1)) } } ]

\* ipr.get_routes(family=family, table=254)
IprGetRoutes(kernel, family) ==
    LET OfFamily(m) == m.family = family IN SelectSeq(kernel.table, OfFamily)

\* LinuxFIBInterface._nexthop_from_rtmsg, for a message without RTA_OIF
NexthopFromRtmsg(msg) ==
    NextHop(msg.RTA_GATEWAY, None,
            IF msg.RTA_GATEWAY = None THEN NHType("connected") ELSE NHType("via"))

\* LinuxFIBInterface._route_from_rtnl_msg, for a message without
\* RTA_MULTIPATH and RTA_PRIORITY, of protocol "static"
RouteFromRtnlMsg(msg) ==
    LET dest == IF msg.dst_len = 0 THEN DefaultNetwork(msg.family)
                ELSE IPNetwork(FamilyVersion(msg.family), msg.RTA_DST.value, msg.dst_len)
    IN  RouteOfDest(dest, msg.dst_len, << NexthopFromRtmsg(msg) >>, None,
                    PyStr("static"), GetRtType(msg.type).value).value

\* dest in net, for two networks
NetContains(net, dest) ==
    /\ net.version = dest.version
    /\ net.prefixlen <= dest.prefixlen
    /\ Masked(net.version, net.ip, net.prefixlen)
          = Masked(dest.version, dest.ip, net.prefixlen)

\* sorted(routes, key=destlen): stable, so equal lengths keep their order
RECURSIVE SortedByDestlen(_, _)
SortedByDestlen(routes, lens) ==
    IF lens = <<>> THEN <<>>
    ELSE LET OfLen(r) == r.destlen.value = Head(lens)
         IN  SelectSeq(routes, OfLen) \o SortedByDestlen(routes, Tail(lens))

Destlens(routes) == { routes[i].destlen.value : i \in DOMAIN routes }

\* LinuxFIBInterface.matching_routes_to, least specific first
MatchingRoutesTo_shortest_first(kernel, dest) ==
    LET nl_routes == IprGetRoutes(kernel, FamilyFromDest(dest))
        Matches(msg) ==
            \/ msg.dst_len = 0
            \/ /\ msg.dst_len <= dest.prefixlen
               /\ NetContains(IPNetwork(FamilyVersion(msg.family), msg.RTA_DST.value,
                                        msg.dst_len), dest)
        kept == SelectSeq(nl_routes, Matches)
        routes == [i \in 1 .. Len(kept) |-> RouteFromRtnlMsg(kept[i])]
    IN  SortedByDestlen(routes, SortedForward(Destlens(routes)))

\* LinuxFIBInterface.matching_routes_to, over a dump of every family
MatchingRoutesTo_all_families(kernel, dest) ==
    LET nl_routes == kernel.table
        Matches(msg) ==
            \/ msg.dst_len = 0
            \/ /\ msg.dst_len <= dest.prefixlen
               /\ NetContains(IPNetwork(FamilyVersion(msg.family), msg.RTA_DST.value,
                                        msg.dst_len), dest)
        kept == SelectSeq(nl_routes, Matches)
        routes == [i \in 1 .. Len(kept) |-> RouteFromRtnlMsg(kept[i])]
    IN  SortedByDestlen(routes, SortedReverse(Destlens(routes)))

\* LinuxFIBInterface.matching_routes_to
MatchingRoutesTo(kernel, dest) ==
    LET nl_routes == IprGetRoutes(kernel, FamilyFromDest(dest))
        Matches(msg) ==
            \/ msg.dst_len = 0
            \/ /\ msg.dst_len <= dest.prefixlen
               /\ NetContains(IPNetwork(FamilyVersion(msg.family), msg.RTA_DST.value,
                                        msg.dst_len), dest)
        kept == SelectSeq(nl_routes, Matches)
        routes == [i \in 1 .. Len(kept) |-> RouteFromRtnlMsg(kept[i])]
    IN  SortedByDestlen(routes, SortedReverse(Destlens(routes)))

\* LinuxFIBInterface.get_default_routes, without the dst_len test
GetDefaultRoutes_unfiltered(kernel, family) ==
    LET kept == IprGetRoutes(kernel, family)
    IN  [i \in 1 .. Len(kept) |-> RouteFromRtnlMsg(kept[i])]

\* LinuxFIBInterface.get_default_routes
GetDefaultRoutes(kernel, family) ==
    LET IsDefault(msg) == msg.dst_len = 0
        kept == SelectSeq(IprGetRoutes(kernel, family), IsDefault)
    IN  [i \in 1 .. Len(kept) |-> RouteFromRtnlMsg(kept[i])]

\* LinuxFIBInterface._route_cmd("get", r): the kernel's answer, a
\* NetlinkError turned into a FIBError that keeps it as orig
RouteCmd(kernel, cmd, r) ==
    IF cmd \notin {"add", "del", "get", "change", "replace"} THEN Raise("ValueError")
    ELSE IF kernel.get.kind = "raise" THEN FIBError(kernel.get.code, kernel.get)
    ELSE kernel.get

\* LinuxFIBInterface.get_route_to: what it returns or raises, and how many
\* times it dumped the table (ipr.get_routes)
GetRouteTo(kernel, rm) ==
    IF rm.is_default
    THEN LET default_routes == GetDefaultRoutes(kernel, rm.family)
         IN  [ret   |-> IF default_routes = <<>>
                        THEN FIBError("no default routes exist", None)
                        ELSE Ret(default_routes[1]),
              dumps |-> 1]
    ELSE LET got == RouteCmd(kernel, "get", rm)
         IN  IF got.kind = "raise"
             THEN IF got.orig.code \in ScanCodes
                  THEN LET routes == MatchingRoutesTo(kernel, rm.dest)
                       IN  [ret   |-> IF routes = <<>>
                                      THEN FIBError("no route exists", None)
                                      ELSE Ret(routes[1]),
                            dumps |-> 1]
                  ELSE [ret |-> got, dumps |-> 0]
             ELSE [ret |-> Ret(RouteFromRtnlMsg(got.value[1])), dumps |-> 0]

\* the destinations asked for
FibDests ==
    { IPNetwork(4, 0, 0), IPNetwork(4, 2, 1), IPNetwork(4, 2, 2), IPNetwork(4, 3, 2),
      IPNetwork(6, 4, 1) }

FibCalls ==
    { [fn |-> "get_route_to", kernel |-> k, rm |-> RouteMatchOfDest(d)] :
        k \in Kernels, d \in FibDests }
    \cup { [fn |-> "matching_routes_to", kernel |-> k, dest |-> d] :
             k \in { k0 \in Kernels : k0.get = NetlinkError("EPERM") }, d \in FibDests }

InitFib == AtRest /\ call \in FibCalls

CallGetRouteTo ==
    /\ call.fn = "get_route_to"
    /\ ret = None
    /\ ret' = GetRouteTo(call.kernel, call.rm)
    /\ UNCHANGED <<startup, call, objects>>

CallMatchingRoutesTo ==
    /\ call.fn = "matching_routes_to"
    /\ ret = None
    /\ ret' = Ret(MatchingRoutesTo(call.kernel, call.dest))
    /\ UNCHANGED <<startup, call, objects>>

NextFib == CallGetRouteTo \/ CallMatchingRoutesTo

SpecFib == InitFib /\ [][NextFib]_vars

\* the routes of the kernel's table, of the family of dest, that contain dest
Containing(kernel, dest) ==
    { RouteFromRtnlMsg(kernel.table[i]) :
        i \in { j \in DOMAIN kernel.table :
                  /\ kernel.table[j].family = FamilyFromDest(dest)
                  /\ NetContains(RouteFromRtnlMsg(kernel.table[j]).dest, dest) } }

DefaultsOf(kernel, family) ==
    LET IsDefaultOf(m) == m.family = family /\ m.dst_len = 0
    IN  SelectSeq(kernel.table, IsDefaultOf)

FibRoutes(kernel) == [i \in DOMAIN kernel.table |-> RouteFromRtnlMsg(kernel.table[i])]

\* r is a route that matching_routes_to(dest) is to return
Matching(r, dest) ==
    /\ r.family = FamilyFromDest(dest)
    /\ \/ r.destlen.value = 0
       \/ /\ r.destlen.value <= dest.prefixlen
          /\ NetKey(r.dest)[2] <= NetKey(dest)[2]
          /\ NetKey(dest)[3] <= NetKey(r.dest)[3]

\* how many times r occurs in a list
Count(l, r) == Cardinality({ i \in DOMAIN l : l[i] = r })

\* a TCAM with the routes of a list added in order
RECURSIVE TcamOf(_, _)
TcamOf(t, routes) ==
    IF routes = <<>> THEN t ELSE TcamOf(TcamAdd(t, Head(routes)), Tail(routes))

MaxNextHops == 2

\* the next-hop lists a Route is built with or extended by
ShortNextHopLists ==
    BoundedSeq({ NextHop(IPAddress(4, 1), PyStr("eth0"), NHType("via")),
                 NextHop(None, PyStr("eth1"), NHType("connected")) }, MaxNextHops)

RouteCalls ==
    { [fn |-> "Route", family |-> f, dest |-> d, nexthops |-> nhs] :
        f \in {"AF_INET", "AF_INET6"}, d \in NetCatalog, nhs \in ShortNextHopLists }

InitRoute == AtRest /\ call \in RouteCalls

CallRoute ==
    /\ call.fn = "Route"
    /\ ret = None
    /\ ret' = RouteInit(call.family, call.dest, call.dest.prefixlen, call.nexthops,
                        None, PyStr("static"), PyStr("unicast"))
    /\ UNCHANGED <<startup, call, objects>>

CallAddNexthops ==
    /\ call.fn = "Route"
    /\ ret # None /\ ret.kind = "return"
    /\ \E nhs \in ShortNextHopLists :
          /\ call' = [fn |-> "add_nexthops", r |-> ret.value, nexthops |-> nhs]
          /\ ret' = Ret(AddNexthops(ret.value, nhs))
    /\ UNCHANGED <<startup, objects>>

NextRoute == CallRoute \/ CallAddNexthops

SpecRoute == InitRoute /\ [][NextRoute]_vars

\* C29: a Route, as constructed and after add_nexthops with any list, has
\* multipath true exactly when it has more than one next hop.
C29_MultipathIffSeveralNextHops ==
    (ret # None /\ ret.kind = "return") =>
        (ret.value.multipath <=> Len(ret.value.nexthops) > 1)

\* C28: whatever adds and removes were made, accepted or rejected, no prefix
\* length of the TCAM maps to an empty dict, and every stored route r is
\* found under its own r.destlen and r.dest, so that a dest has one route.
C28_TcamWellFormed ==
    \A len \in DOMAIN tcam :
        /\ DOMAIN tcam[len] # {}
        /\ \A k \in DOMAIN tcam[len] :
              /\ tcam[len][k].destlen = PyInt(len)
              /\ NetKey(tcam[len][k].dest) = k
              /\ tcam[len][k].dest.prefixlen = len
              /\ \A other \in DOMAIN tcam : k \in DOMAIN tcam[other] => other = len

\* the last route of a prefix length was removed while others stay stored
C28_Witness ==
    /\ call.fn = "remove" /\ ret.kind = "return"
    /\ tcam # EmptyMap
    /\ call.r.destlen.value \notin DOMAIN tcam

\* the names of the API instances of loaded_apis, in order
LoadedNames == [i \in 1 .. Len(configurator.loaded_apis) |-> configurator.loaded_apis[i].name]

\* the positions of `modules` where a name occurs for the first time and
\* whose module was loaded
FirstLoaded ==
    { i \in 1 .. Len(conf.modules) :
        /\ \A j \in 1 .. i - 1 : conf.modules[j] # conf.modules[i]
        /\ conf.modules[i] \in DOMAIN configurator.module_apis_by_name }

\* load_modules has returned: loaded_apis holds one instance per loaded
\* name, in the order the names first occur in `modules`
LoadedInDeclaredOrder ==
    (load_ret # None /\ load_ret.kind = "return" /\ conf.has_modules) =>
        /\ Len(LoadedNames) = Cardinality(FirstLoaded)
        /\ \A n \in 1 .. Len(LoadedNames) :
              \E i \in FirstLoaded :
                  /\ Cardinality({ j \in FirstLoaded : j <= i }) = n
                  /\ LoadedNames[n] = conf.modules[i]
                  /\ configurator.loaded_apis[n] = configurator.module_apis_by_name[LoadedNames[n]]

\* C27: after load_modules, loaded_apis has one instance per name that
\* loaded, in order of first occurrence in `modules`, a repeated name being
\* skipped; and the dispatcher then runs these modules, in that order.
C27_LoadedOnceAndRunInOrder ==
    /\ LoadedInDeclaredOrder
    /\ (pc = "exit" /\ LoadSucceeded) =>
          /\ main_ret.kind = "return"
          /\ \E procs \in Snapshots :
                DispatchRun(configurator, procs) =
                   DispatchRunLoop(configurator.loaded_apis, procs, 1)

\* C25: Dispatch.execute_action, handed the settings object built at load
\* time, gets as far as calling execute: it raises nothing of its own about
\* the settings (no attribute, type or parse error of the dispatcher), for
\* any entry of an action list whose settings load_modules accepted.
C25_ExecuteActionUsesSettings ==
    (call # None /\ call.fn = "ActionList.run" /\ ret # None) =>
        \A i \in 1 .. Len(call.settings.action_settings_list) :
            LET r == ExecuteAction(call.settings.action_settings_list[i], call.context)
            IN  /\ ret.events[i].action_name = call.settings.action_settings_list[i].action_name
                /\ ~(r.kind = "raise" /\ r.exc \in {"AttributeError", "TypeError", "ParseError"})

\* -------------------------------------------------------- ActionExecute
MAX_DATA_READ == 4096
DEFAULT_TIMEOUT == 5
MaxNested == 2

RootUid == 0        \* the uid the daemon, the parent process, runs as
UserUid == 1000     \* pw_uid of the configured user

Min2(a, b) == IF a <= b THEN a ELSE b

\* settings.on_fail_or_output: None, or the settings of a list that is not
\* empty (from_pyhocon turns an empty list into None)
NestedLists ==
    { [class |-> "ActionListSettings", action_settings_list |-> l] :
        l \in BoundedSeq(ActionSettingsSet, MaxNested) \ { <<>> } }

ExecuteSettings ==
    [ class             : { "ActionExecuteSettings" },
      action_name       : { <<"process", DOT, "execute">> },
      cmdline           : { << "/bin/check" >> },
      user              : { [pw_uid |-> UserUid, pw_name |-> "nobody"] },
      on_fail_or_output : {None} \cup NestedLists,
      timeout           : { None, PyInt(DEFAULT_TIMEOUT) } ]

\* what the child process meets: whether setresuid fails, what getresuid
\* reads back, whether exec fails, how the program ends (were it exec'ed),
\* and how many bytes (decodable or not) were written to its output
Outputs ==
    [ size : { 0, 1, MAX_DATA_READ, MAX_DATA_READ + 1 }, valid : BOOLEAN ]

NoOutput == [size |-> 0, valid |-> TRUE]

Children ==
    \* setresuid raises; the error is logged, possibly into the output
    [ setresuid : {"EPERM"}, resuid : { <<RootUid, RootUid, RootUid>> },
      exec : {"ok"}, exit : {"exit0"}, output : { NoOutput, [size |-> 1, valid |-> TRUE] } ]
    \cup
    \* setresuid returns but a uid read back is not the target's
    [ setresuid : {"ok"},
      resuid : { <<RootUid, UserUid, UserUid>>, <<UserUid, RootUid, UserUid>>,
                 <<UserUid, UserUid, RootUid>> },
      exec : {"ok"}, exit : {"exit0"}, output : { NoOutput, [size |-> 1, valid |-> TRUE] } ]
    \cup
    \* the uids are the target's, exec fails
    [ setresuid : {"ok"}, resuid : { <<UserUid, UserUid, UserUid>> },
      exec : {"ENOENT"}, exit : {"exit0"}, output : { NoOutput } ]
    \cup
    \* the program runs
    [ setresuid : {"ok"}, resuid : { <<UserUid, UserUid, UserUid>> },
      exec : {"ok"}, exit : {"exit0", "exit1", "timeout"}, output : Outputs ]

\* ActionExecute.set_user, without the check of the uids read back
SetUser_trusting(settings, child) ==
    IF child.setresuid # "ok" THEN Raise("PermissionError") ELSE Ret(None)

\* ActionExecute.set_user, in the child
SetUser(settings, child) ==
    LET uid == settings.user.pw_uid
    IN  IF child.setresuid # "ok" THEN Raise("PermissionError")
        ELSE IF child.resuid[1] # uid \/ child.resuid[2] # uid \/ child.resuid[3] # uid
        THEN Raise("RuntimeError")
        ELSE Ret(None)

\* subprocess.check_call(cmdline, preexec_fn=self.set_user, timeout=...):
\* what it returns or raises, whether the program was exec'ed, whether the
\* child was killed, and the uids of the parent afterwards
CheckCallWith(set_user, child, parent_uids) ==
    IF set_user.kind = "raise"
    THEN [ret |-> Raise("SubprocessError"), execd |-> FALSE, killed |-> FALSE,
          parent_uids |-> parent_uids]
    ELSE IF child.exec # "ok"
    THEN [ret |-> Raise("FileNotFoundError"), execd |-> FALSE, killed |-> FALSE,
          parent_uids |-> parent_uids]
    ELSE IF child.exit = "timeout"
    THEN [ret |-> Raise("TimeoutExpired"), execd |-> TRUE, killed |-> TRUE,
          parent_uids |-> parent_uids]
    ELSE IF child.exit # "exit0"
    THEN [ret |-> Raise("CalledProcessError"), execd |-> TRUE, killed |-> FALSE,
          parent_uids |-> parent_uids]
    ELSE [ret |-> Ret(PyInt(0)), execd |-> TRUE, killed |-> FALSE,
          parent_uids |-> parent_uids]

CheckCall(settings, child, parent_uids) ==
    CheckCallWith(SetUser(settings, child), child, parent_uids)

\* ActionExecute._execute_without_output, with a failed command passed over
ExecuteWithoutOutput_lenient(settings, context, child, parent_uids) ==
    LET cc == CheckCall(settings, child, parent_uids)
    IN  [ret |-> IF cc.ret.kind = "raise" /\ cc.ret.exc # "CalledProcessError"
                 THEN cc.ret ELSE Ret(None),
         execd |-> cc.execd, killed |-> cc.killed, parent_uids |-> cc.parent_uids,
         nested |-> <<>>]

\* ActionExecute._execute_without_output
ExecuteWithoutOutput(settings, context, child, parent_uids) ==
    LET cc == CheckCall(settings, child, parent_uids)
    IN  [ret |-> IF cc.ret.kind = "raise" THEN cc.ret ELSE Ret(None),
         execd |-> cc.execd, killed |-> cc.killed, parent_uids |-> cc.parent_uids,
         nested |-> <<>>]

\* output.read(self.MAX_DATA_READ)
Read(output) == [kind |-> "bytes", size |-> Min2(output.size, MAX_DATA_READ),
                 valid |-> output.valid]

\* output_data.decode(encoding, "replace"): bytes that do not decode are replaced
Decode(output_data) ==
    [kind |-> "text", chars |-> output_data.size, replaced |-> ~output_data.valid]

\* sep.join(strings), as the sequence of its pieces
RECURSIVE Join(_, _)
Join(sep, strings) ==
    IF Len(strings) <= 1 THEN strings
    ELSE << Head(strings), sep >> \o Join(sep, Tail(strings))

\* the message of the nested context
NestedMessage(context, error_text, output_data, size) ==
    LET failed == IF error_text # None /\ error_text.text # ""
                  THEN << PyStr("The cmdline failed:"), error_text >> ELSE <<>>
        seen   == IF output_data # None /\ output_data.size > 0
                  THEN << PyStr("While running the cmdline, the following output was seen:"),
                          [kind |-> "truncated", is |-> size > MAX_DATA_READ],
                          Decode(output_data) >>
                  ELSE <<>>
    IN  Join(PyStr("\n\n"), << PyStr(context.message) >> \o failed \o seen)

\* ActionExecute._execute_with_output, without the test on output and error
ExecuteWithOutput_always(settings, context, child, parent_uids) ==
    LET cc          == CheckCall(settings, child, parent_uids)
        size        == child.output.size
        output_data == IF size # 0 THEN Read(child.output) ELSE None
        error_text  == IF cc.ret.kind = "raise" THEN PyStr(cc.ret.exc) ELSE None
        nested_context ==
            ActionContext(<< context.calling_module, context.dispatch,
                             NestedMessage(context, error_text, output_data, size) >>).value
        run == ActionListRun(settings.on_fail_or_output, nested_context)
    IN  [ret |-> IF cc.ret.kind = "raise" THEN cc.ret ELSE Ret(None),
         execd |-> cc.execd, killed |-> cc.killed, parent_uids |-> cc.parent_uids,
         nested |-> << [context |-> nested_context, all_ok |-> run.all_ok,
                        events |-> run.events] >>]

\* ActionExecute._execute_with_output: the exception of check_call, if any,
\* is raised again after the nested list was run; what the nested run
\* returned is dropped
ExecuteWithOutput(settings, context, child, parent_uids) ==
    LET cc          == CheckCall(settings, child, parent_uids)
        size        == child.output.size
        output_data == IF size # 0 THEN Read(child.output) ELSE None
        error_text  == IF cc.ret.kind = "raise" THEN PyStr(cc.ret.exc) ELSE None
        nested_context ==
            ActionContext(<< context.calling_module, context.dispatch,
                             NestedMessage(context, error_text, output_data, size) >>).value
        run == ActionListRun(settings.on_fail_or_output, nested_context)
    IN  IF output_data # None \/ error_text # None
        THEN [ret |-> IF cc.ret.kind = "raise" THEN cc.ret ELSE Ret(None),
              execd |-> cc.execd, killed |-> cc.killed, parent_uids |-> cc.parent_uids,
              nested |-> << [context |-> nested_context, all_ok |-> run.all_ok,
                             events |-> run.events] >>]
        ELSE [ret |-> Ret(None), execd |-> cc.execd, killed |-> cc.killed,
              parent_uids |-> cc.parent_uids, nested |-> <<>>]

\* ActionExecute.execute
ActionExecuteExecute(settings, context, child, parent_uids) ==
    IF settings.on_fail_or_output # None
    THEN ExecuteWithOutput(settings, context, child, parent_uids)
    ELSE ExecuteWithoutOutput(settings, context, child, parent_uids)

ExecuteCalls ==
    { [fn |-> "ActionExecute.execute", settings |-> st, context |-> c, child |-> ch,
       parent_uids |-> <<RootUid, RootUid, RootUid>>] :
        st \in ExecuteSettings,
        c \in { x \in Contexts : x.calling_module = "process" },
        ch \in Children }
    \ { x \in [fn : {"ActionExecute.execute"}, settings : ExecuteSettings, context : Contexts,
               child : Children, parent_uids : { <<RootUid, RootUid, RootUid>> }] :
          x.child.exit = "timeout" /\ x.settings.timeout = None }

InitExecute == AtRest /\ call \in ExecuteCalls

CallExecute ==
    /\ call.fn = "ActionExecute.execute"
    /\ ret = None
    /\ ret' = ActionExecuteExecute(call.settings, call.context, call.child, call.parent_uids)
    /\ UNCHANGED <<startup, call, objects>>

NextExecute == CallExecute

SpecExecute == InitExecute /\ [][NextExecute]_vars

\* the command failed: it could not be started, ended with a code other
\* than 0, or ran out of time
CommandFailed(settings, child) ==
    \/ child.setresuid # "ok"
    \/ child.resuid # << settings.user.pw_uid, settings.user.pw_uid, settings.user.pw_uid >>
    \/ child.exec # "ok"
    \/ child.exit # "exit0"

InMessage(message, piece) == \E i \in DOMAIN message : message[i] = piece

\* C22: with on_fail_or_output set, execute runs that list once, every
\* entry of it, when the command failed or wrote output, under a new context
\* of the same calling module whose message holds the message of the
\* original context and the output read, decoded; it does not run the list
\* when the command ended with 0 and wrote nothing.
C22_NestedListRunsOnFailOrOutput ==
    (call.fn = "ActionExecute.execute" /\ ret # None
        /\ call.settings.on_fail_or_output # None) =>
        IF CommandFailed(call.settings, call.child) \/ call.child.output.size > 0
        THEN /\ Len(ret.nested) = 1
             /\ Len(ret.nested[1].events)
                   = Len(call.settings.on_fail_or_output.action_settings_list)
             /\ \A i \in DOMAIN ret.nested[1].events :
                   ret.nested[1].events[i].action_name
                      = call.settings.on_fail_or_output.action_settings_list[i].action_name
             /\ ret.nested[1].context.calling_module = call.context.calling_module
             /\ ret.nested[1].context.dispatch = call.context.dispatch
             /\ InMessage(ret.nested[1].context.message, PyStr(call.context.message))
             /\ call.child.output.size > 0 =>
                   InMessage(ret.nested[1].context.message, Decode(Read(call.child.output)))
        ELSE ret.nested = <<>>

\* the command ended with 0 and wrote more than is read: the list was run
C22_Witness ==
    /\ call.fn = "ActionExecute.execute" /\ ret # None
    /\ call.settings.on_fail_or_output # None
    /\ call.child.exit = "exit0"
    /\ call.child.output.size > MAX_DATA_READ
    /\ Len(ret.nested) = 1
    /\ ret.ret.kind = "return"

C24_ExecOnlyAsConfiguredUser ==
    (call.fn = "ActionExecute.execute" /\ ret # None) =>
        LET uid == call.settings.user.pw_uid
            dropped == call.child.setresuid = "ok" /\ call.child.resuid = <<uid, uid, uid>>
        IN  /\ ret.execd => dropped
            /\ ~dropped => (ret.ret.kind = "raise" /\ ~ret.execd)
            /\ ret.parent_uids = call.parent_uids

\* setresuid returned, the saved uid read back is still root's: no exec
C24_Witness ==
    /\ call.fn = "ActionExecute.execute" /\ ret # None
    /\ call.child.setresuid = "ok"
    /\ call.child.resuid = <<UserUid, UserUid, RootUid>>
    /\ ~ret.execd
    /\ ret.ret.kind = "raise"

\* C26: when an action of the on_fail_or_output list raised, execute raises
\* too, so that the ActionList.run it was called from counts an error and
\* the check that led to it gets at least action_error.
C26_NestedErrorIsFolded ==
    (call.fn = "ActionExecute.execute" /\ ret # None /\ ret.nested # <<>>) =>
        ((\E i \in DOMAIN ret.nested[1].events : ret.nested[1].events[i].raised)
            => ret.ret.kind = "raise")

====
